---- MODULE Spec2Model ----
(***************************************************************************)
(* DPQ scoring core of dpq-backend/dpq/dpq.py:                             *)
(* DogPersonalityQuestionnaire.score_assessment and its helpers, and the   *)
(* analyzer, formatter and service manager built on it.                    *)
(*                                                                         *)
(* Python floats are modelled as exact rationals <<n, d>> in lowest terms  *)
(* with d > 0, so 4.0 is <<4, 1>> and 5.5 is <<11, 2>>.  The rounding of   *)
(* float arithmetic (a unit in the last place of np.mean and of /) is not  *)
(* modelled: a score is the exact value of the expression the code         *)
(* evaluates.                                                              *)
(*                                                                         *)
(* Spec scores one mapping in one step.  SpecCalls runs several calls on   *)
(* one instance statement by statement, interleaved, while the caller      *)
(* changes its mapping.  SpecWide scores mappings with entries under other *)
(* ids, ratings off the scale and str keys, directly and after the int()   *)
(* conversion of the callers.  SpecUniform scores the questionnaires       *)
(* answered with one rating throughout, SpecProfiles those answered in the *)
(* pattern of the fearful and the trainable fixture, SpecExtremes those    *)
(* that put the factors at the ends of the scale.  SpecRescore scores a    *)
(* questionnaire again after an item of Factor 1 is re-rated.              *)
(*                                                                         *)
(* SpecFiles adds DPQAnalyzer.save_results and load_results, SpecAnalyzer  *)
(* DPQAnalyzer._generate_recommendations, SpecFormatter                    *)
(* DPQResponseFormatter.format_assessment_response of                      *)
(* dpq-backend/dpq/response_formatter.py.  SpecManager is the              *)
(* ServiceManager of dpq-backend/app/services/service_manager.py.          *)
(***************************************************************************)
EXTENDS Integers, Sequences, FiniteSets, TLC

VARIABLES
    responses,   \* the caller's response mapping: question id -> rating
    pc,          \* "ready": mapping built, not scored yet; "scored": score_assessment returned
    results,     \* the DPQResults returned by score_assessment, or NoResults
    dpq,         \* the attributes of the DogPersonalityQuestionnaire the calls run on
    calls,       \* the frame of each call of score_assessment that runs step by step
    heap,        \* the dicts those calls allocate: object name -> mapping
    changes,     \* how many times the caller has changed its mapping
    files,       \* the JSON files written by save_results: path -> document
    loaded,      \* the DPQResults returned by load_results, or NoResults
    manager,     \* the attributes of the ServiceManager, or NoManager
    outcome,     \* how the last operation on the ServiceManager ended, or NoOutcome
    recommendations, \* the list returned by DPQAnalyzer._generate_recommendations
    response     \* the dict returned by format_assessment_response, or NoResponse

vars == <<responses, pc, results, dpq, calls, heap, changes,
          files, loaded, manager, outcome, recommendations, response>>

----------------------------------------------------------------------------
(* Bounds of the model *)

\* how many items of one facet the caller re-rates or leaves out of a base response set
MaxOverrides == 1

\* how many distinct readings datetime.now() can return
MaxTime == 1

----------------------------------------------------------------------------
(* Rational arithmetic standing for float arithmetic *)

RECURSIVE GCD(_, _)
GCD(a, b) == IF b = 0 THEN a ELSE GCD(b, a % b)

Abs(n) == IF n < 0 THEN -n ELSE n

\* the rational n/d (d > 0) in lowest terms
Rat(n, d) == LET g == GCD(Abs(n), d) IN <<n \div g, d \div g>>

FromInt(n) == <<n, 1>>

RAdd(a, b) == Rat(a[1] * b[2] + b[1] * a[2], a[2] * b[2])

RSub(a, b) == Rat(a[1] * b[2] - b[1] * a[2], a[2] * b[2])

\* a / k for an integer k > 0
RDiv(a, k) == Rat(a[1], a[2] * k)

RLe(a, b) == a[1] * b[2] <= b[1] * a[2]

RLt(a, b) == a[1] * b[2] < b[1] * a[2]

RGe(a, b) == RLe(b, a)

RECURSIVE RSum(_)
RSum(seq) == IF seq = <<>> THEN FromInt(0) ELSE RAdd(Head(seq), RSum(Tail(seq)))

\* np.mean of a non-empty list of numbers
Mean(seq) == RDiv(RSum(seq), Len(seq))

----------------------------------------------------------------------------
(* Questionnaire definition: DogPersonalityQuestionnaire.__init__ *)

\* self.questions has the keys 1..45
NumQuestions == 45

QuestionIds == 1..NumQuestions

\* self.scale_labels has the keys 1..7
ScaleMax == 7

Scale == 1..ScaleMax

Facet(name, items, reverse) == [name |-> name, items |-> items, reverse |-> reverse]

\* the five entries of self.scoring_structure
Fearfulness ==
    [name |-> "Factor 1 - Fearfulness", facets |-> <<
        Facet("Fear of People", <<1, 6, 27>>, <<1>>),
        Facet("Nonsocial Fear", <<3, 11, 22>>, <<11, 22>>),
        Facet("Fear of Dogs", <<13, 21, 42>>, <<>>),
        Facet("Fear of Handling", <<16, 35, 44>>, <<>>) >>]

AggressionTowardsPeople ==
    [name |-> "Factor 2 - Aggression towards People", facets |-> <<
        Facet("General Aggression", <<7, 18, 40>>, <<18>>),
        Facet("Situational Aggression", <<25, 30, 36>>, <<>>) >>]

ActivityExcitability ==
    [name |-> "Factor 3 - Activity/Excitability", facets |-> <<
        Facet("Excitability", <<15, 31, 41>>, <<41>>),
        Facet("Playfulness", <<9, 17, 33>>, <<9>>),
        Facet("Active Engagement", <<4, 14, 24>>, <<4>>),
        Facet("Companionability", <<20, 26, 37>>, <<26>>) >>]

ResponsivenessToTraining ==
    [name |-> "Factor 4 - Responsiveness to Training", facets |-> <<
        Facet("Trainability", <<29, 38, 43>>, <<29, 38>>),
        Facet("Controllability", <<5, 10, 32>>, <<10>>) >>]

AggressionTowardsAnimals ==
    [name |-> "Factor 5 - Aggression towards Animals", facets |-> <<
        Facet("Aggression towards Dogs", <<2, 19, 34>>, <<19, 34>>),
        Facet("Prey Drive", <<8, 23, 39>>, <<>>),
        Facet("Dominance over Other Dogs", <<12, 28, 45>>, <<28>>) >>]

\* scoring_structure with item 45 mistyped as 44
scoring_structure_Typo ==
    <<Fearfulness, AggressionTowardsPeople, ActivityExcitability,
      ResponsivenessToTraining,
      [name |-> "Factor 5 - Aggression towards Animals", facets |-> <<
          Facet("Aggression towards Dogs", <<2, 19, 34>>, <<19, 34>>),
          Facet("Prey Drive", <<8, 23, 39>>, <<>>),
          Facet("Dominance over Other Dogs", <<12, 28, 44>>, <<28>>) >>]>>

\* scoring_structure with the reverse flag of item 28 forgotten
scoring_structure_Unflagged ==
    <<Fearfulness, AggressionTowardsPeople, ActivityExcitability,
      ResponsivenessToTraining,
      [name |-> "Factor 5 - Aggression towards Animals", facets |-> <<
          Facet("Aggression towards Dogs", <<2, 19, 34>>, <<19, 34>>),
          Facet("Prey Drive", <<8, 23, 39>>, <<>>),
          Facet("Dominance over Other Dogs", <<12, 28, 45>>, <<>>) >>]>>

\* scoring_structure with item 45 mistyped as 46
scoring_structure_Typo46 ==
    <<Fearfulness, AggressionTowardsPeople, ActivityExcitability,
      ResponsivenessToTraining,
      [name |-> "Factor 5 - Aggression towards Animals", facets |-> <<
          Facet("Aggression towards Dogs", <<2, 19, 34>>, <<19, 34>>),
          Facet("Prey Drive", <<8, 23, 39>>, <<>>),
          Facet("Dominance over Other Dogs", <<12, 28, 46>>, <<28>>) >>]>>

\* self.scoring_structure, in declaration (dict insertion) order
scoring_structure ==
    <<Fearfulness, AggressionTowardsPeople, ActivityExcitability,
      ResponsivenessToTraining, AggressionTowardsAnimals>>

RECURSIVE Concat(_)
Concat(seqs) == IF seqs = <<>> THEN <<>> ELSE Head(seqs) \o Concat(Tail(seqs))

\* every facet, in the order of the nested loops
\*   for factor_name, facets in self.scoring_structure.items():
\*       for facet_name, facet_info in facets.items():
AllFacets == Concat([i \in 1..Len(scoring_structure) |-> scoring_structure[i].facets])

Range(seq) == {seq[i] : i \in 1..Len(seq)}

----------------------------------------------------------------------------
(* Python dicts as functions: insertion and membership *)

EmptyDict == <<>>

\* d[k] = v
Put(d, k, v) == [x \in (DOMAIN d) \cup {k} |-> IF x = k THEN v ELSE d[x]]

----------------------------------------------------------------------------
(* score_assessment: reverse coding, facet scores, factor scores *)

\* the midpoint 4.0 given to a facet or factor with nothing to average
NeutralScore == 4

\* the constant of the reverse transform 8 - v
ReverseBase == 8

\* the items visited by the reverse-coding loops, in visiting order
ReverseItems == Concat([i \in 1..Len(AllFacets) |-> AllFacets[i].reverse])

\* ReverseCode with the transform of a five-point scale, 6 - v
RECURSIVE ReverseCode_FivePoint(_, _)
ReverseCode_FivePoint(processed_responses, items) ==
    IF items = <<>> THEN processed_responses
    ELSE LET item == Head(items) IN
         ReverseCode_FivePoint(IF item \in DOMAIN processed_responses
                                  THEN [processed_responses EXCEPT ![item] = 6 - @]
                                  ELSE processed_responses,
                               Tail(items))

\* ReverseCode with the transform 7 - v
RECURSIVE ReverseCode_Seven(_, _)
ReverseCode_Seven(processed_responses, items) ==
    IF items = <<>> THEN processed_responses
    ELSE LET item == Head(items) IN
         ReverseCode_Seven(IF item \in DOMAIN processed_responses
                              THEN [processed_responses EXCEPT ![item] = ScaleMax - @]
                              ELSE processed_responses,
                           Tail(items))

\* ReverseCode with the reverse-coding loops left out
ReverseCode_None(processed_responses, items) == processed_responses

\* for item in facet_info["reverse"]:
\*     if item in processed_responses:
\*         processed_responses[item] = 8 - processed_responses[item]
RECURSIVE ReverseCode(_, _)
ReverseCode(processed_responses, items) ==
    IF items = <<>> THEN processed_responses
    ELSE LET item == Head(items) IN
         ReverseCode(IF item \in DOMAIN processed_responses
                        THEN [processed_responses EXCEPT ![item] = ReverseBase - @]
                        ELSE processed_responses,
                     Tail(items))

\* processed_responses = responses.copy(), then the reverse-coding loops
ProcessedResponses(resp) == ReverseCode(resp, ReverseItems)

\* valid_scores = [processed_responses[item] for item in items if item in processed_responses]
ValidScores(facet_info, processed_responses) ==
    LET present == SelectSeq(facet_info.items, LAMBDA item : item \in DOMAIN processed_responses)
    IN  [k \in 1..Len(present) |-> FromInt(processed_responses[present[k]])]

\* FacetScore with the division of the mean forgotten: sum(valid_scores)
FacetScore_Sum(facet_info, processed_responses) ==
    LET valid_scores == ValidScores(facet_info, processed_responses) IN
    IF valid_scores # <<>> THEN RSum(valid_scores) ELSE FromInt(NeutralScore)

\* FacetScore dividing by the number of items of the facet, answered or not
FacetScore_DivAll(facet_info, processed_responses) ==
    LET valid_scores == ValidScores(facet_info, processed_responses) IN
    IF valid_scores # <<>> THEN RDiv(RSum(valid_scores), Len(facet_info.items))
    ELSE FromInt(NeutralScore)

\* np.mean(valid_scores) if valid_scores else 4.0
FacetScore(facet_info, processed_responses) ==
    LET valid_scores == ValidScores(facet_info, processed_responses) IN
    IF valid_scores # <<>> THEN Mean(valid_scores) ELSE FromInt(NeutralScore)

\* the loop that fills facet_scores, one entry per facet visited
RECURSIVE FacetScores(_, _, _)
FacetScores(facets, processed_responses, facet_scores) ==
    IF facets = <<>> THEN facet_scores
    ELSE FacetScores(Tail(facets), processed_responses,
                     Put(facet_scores, Head(facets).name,
                         FacetScore(Head(facets), processed_responses)))

\* ValidFacetScores testing the facet names against the dict being filled:
\*   ... for facet in factor_facets if facet in factor_scores
ValidFacetScores_WrongDict(factor, facet_scores) ==
    LET factor_facets == [k \in 1..Len(factor.facets) |-> factor.facets[k].name]
        factor_names == {scoring_structure[k].name : k \in 1..Len(scoring_structure)}
        present == SelectSeq(factor_facets, LAMBDA facet : facet \in factor_names)
    IN  [k \in 1..Len(present) |-> facet_scores[present[k]]]

\* valid_facet_scores = [facet_scores[facet] for facet in factor_facets if facet in facet_scores]
ValidFacetScores(factor, facet_scores) ==
    LET factor_facets == [k \in 1..Len(factor.facets) |-> factor.facets[k].name]
        present == SelectSeq(factor_facets, LAMBDA facet : facet \in DOMAIN facet_scores)
    IN  [k \in 1..Len(present) |-> facet_scores[present[k]]]

\* FactorScore leaving the facets that sit at the neutral 4.0 out of the mean
FactorScore_SkipNeutral(factor, facet_scores) ==
    LET valid_facet_scores == SelectSeq(ValidFacetScores(factor, facet_scores),
                                        LAMBDA score : score # FromInt(NeutralScore)) IN
    IF valid_facet_scores # <<>> THEN Mean(valid_facet_scores) ELSE FromInt(NeutralScore)

\* np.mean(valid_facet_scores) if valid_facet_scores else 4.0
FactorScore(factor, facet_scores) ==
    LET valid_facet_scores == ValidFacetScores(factor, facet_scores) IN
    IF valid_facet_scores # <<>> THEN Mean(valid_facet_scores) ELSE FromInt(NeutralScore)

\* the loop that fills factor_scores, one entry per factor visited
RECURSIVE FactorScores(_, _, _)
FactorScores(factors, facet_scores, factor_scores) ==
    IF factors = <<>> THEN factor_scores
    ELSE FactorScores(Tail(factors), facet_scores,
                      Put(factor_scores, Head(factors).name,
                          FactorScore(Head(factors), facet_scores)))

----------------------------------------------------------------------------
(* DogPersonalityQuestionnaire._generate_personality_profile *)

\* 5.5, 4.5 and 5.0
HighThreshold == Rat(11, 2)

ModerateThreshold == Rat(9, 2)

\* the tags given from 6.0 on, above the 5.5 at which a level turns High
DominantThreshold_Six == FromInt(6)

DominantThreshold == FromInt(5)

\* Level with strict comparisons
Level_Strict(score) ==
    IF RLt(HighThreshold, score) THEN "High"
    ELSE IF RLt(ModerateThreshold, score) THEN "Moderate"
    ELSE "Low"

Level(score) ==
    IF RGe(score, HighThreshold) THEN "High"
    ELSE IF RGe(score, ModerateThreshold) THEN "Moderate"
    ELSE "Low"

\* the five  if factor_scores[...] >= 5.0: dominant_traits.append(...)  statements, in order
TraitTags == <<
    [factor |-> "Factor 1 - Fearfulness", tag |-> "Cautious/Fearful"],
    [factor |-> "Factor 2 - Aggression towards People", tag |-> "Protective/Aggressive"],
    [factor |-> "Factor 3 - Activity/Excitability", tag |-> "Energetic/Excitable"],
    [factor |-> "Factor 4 - Responsiveness to Training", tag |-> "Trainable/Responsive"],
    [factor |-> "Factor 5 - Aggression towards Animals", tag |-> "Animal-Reactive"] >>

\* DominantTraits with the strict comparison > 5.0
RECURSIVE DominantTraits_Strict(_, _, _)
DominantTraits_Strict(checks, factor_scores, dominant_traits) ==
    IF checks = <<>> THEN dominant_traits
    ELSE DominantTraits_Strict(Tail(checks), factor_scores,
             IF RLt(DominantThreshold, factor_scores[Head(checks).factor])
                THEN Append(dominant_traits, Head(checks).tag)
                ELSE dominant_traits)

RECURSIVE DominantTraits(_, _, _)
DominantTraits(checks, factor_scores, dominant_traits) ==
    IF checks = <<>> THEN dominant_traits
    ELSE DominantTraits(Tail(checks), factor_scores,
             IF RGe(factor_scores[Head(checks).factor], DominantThreshold)
                THEN Append(dominant_traits, Head(checks).tag)
                ELSE dominant_traits)

\* sep.join(strs)
RECURSIVE Join(_, _)
Join(sep, strs) ==
    IF strs = <<>> THEN ""
    ELSE IF Len(strs) = 1 THEN Head(strs)
    ELSE Head(strs) \o sep \o Join(sep, Tail(strs))

\* the profile with  profile[factor] = level  run only in the High and
\* Moderate branches
generate_personality_profile_NoLow(factor_scores, facet_scores) ==
    LET kept == {factor \in DOMAIN factor_scores :
                    RGe(factor_scores[factor], ModerateThreshold)}
        levels == [factor \in kept |-> Level(factor_scores[factor])]
        found == DominantTraits(TraitTags, factor_scores, <<>>)
        dominant_traits == IF found = <<>> THEN <<"Balanced">> ELSE found
    IN  Put(levels, "Dominant_Traits", Join(", ", dominant_traits))

generate_personality_profile(factor_scores, facet_scores) ==
    LET \* for factor, score in factor_scores.items(): profile[factor] = level
        levels == [factor \in DOMAIN factor_scores |-> Level(factor_scores[factor])]
        found == DominantTraits(TraitTags, factor_scores, <<>>)
        dominant_traits == IF found = <<>> THEN <<"Balanced">> ELSE found
    IN  Put(levels, "Dominant_Traits", Join(", ", dominant_traits))

----------------------------------------------------------------------------
(* DogPersonalityQuestionnaire._calculate_bias_indicators *)

\* the one-score indicators divided by 14.0 like the two-score ones
BiasDivisor_Fourteen == 2 * ScaleMax

\* the divisor 7.0 and the minuend 7 of the complement indicators
BiasDivisor == 7

\* the two-score indicators divided by 7.0 like the others
BiasDivisor2_Seven == BiasDivisor

\* the divisor 14.0 of the two-score indicators
BiasDivisor2 == 14

calculate_bias_indicators(factor_scores, facet_scores) ==
    LET seven == FromInt(BiasDivisor) IN
    [ fearfulness_bias |-> RDiv(factor_scores["Factor 1 - Fearfulness"], BiasDivisor),
      aggression_bias |-> RDiv(RAdd(factor_scores["Factor 2 - Aggression towards People"],
                                    factor_scores["Factor 5 - Aggression towards Animals"]),
                               BiasDivisor2),
      excitability_bias |-> RDiv(factor_scores["Factor 3 - Activity/Excitability"], BiasDivisor),
      trainability_bias |-> RDiv(factor_scores["Factor 4 - Responsiveness to Training"], BiasDivisor),
      social_confidence |-> RDiv(RSub(seven, facet_scores["Fear of People"]), BiasDivisor),
      dog_sociability |-> RDiv(RAdd(RSub(seven, facet_scores["Fear of Dogs"]),
                                    facet_scores["Playfulness"]), BiasDivisor2),
      environmental_adaptability |-> RDiv(RSub(seven, facet_scores["Nonsocial Fear"]), BiasDivisor),
      handling_tolerance |-> RDiv(RSub(seven, facet_scores["Fear of Handling"]), BiasDivisor),
      attention_seeking |-> RDiv(facet_scores["Companionability"], BiasDivisor),
      activity_level |-> RDiv(RAdd(facet_scores["Excitability"],
                                   facet_scores["Active Engagement"]), BiasDivisor2),
      impulse_control |-> RDiv(facet_scores["Controllability"], BiasDivisor),
      territorial_tendency |-> RDiv(facet_scores["General Aggression"], BiasDivisor),
      resource_guarding |-> RDiv(facet_scores["Situational Aggression"], BiasDivisor),
      prey_drive |-> RDiv(facet_scores["Prey Drive"], BiasDivisor) ]

----------------------------------------------------------------------------
(* DogPersonalityQuestionnaire.score_assessment *)

\* everything score_assessment computes from the responses before it builds
\* the DPQResults
Scores(resp) ==
    LET processed_responses == ProcessedResponses(resp)
        facet_scores == FacetScores(AllFacets, processed_responses, EmptyDict)
        factor_scores == FactorScores(scoring_structure, facet_scores, EmptyDict)
    IN  [ factor_scores |-> factor_scores,
          facet_scores |-> facet_scores,
          personality_profile |-> generate_personality_profile(factor_scores, facet_scores),
          bias_indicators |-> calculate_bias_indicators(factor_scores, facet_scores) ]

\* raw_scores=responses stores the caller's dict object itself, not a copy:
\* the field is a reference to that object
CallerDict == "responses"

\* return DPQResults(dog_id=dog_id, assessment_date=datetime.now().isoformat(), ...)
DPQResults(dog_id, assessment_date, raw_scores, scores) ==
    [ dog_id |-> dog_id,
      assessment_date |-> assessment_date,
      raw_scores |-> raw_scores,
      factor_scores |-> scores.factor_scores,
      facet_scores |-> scores.facet_scores,
      personality_profile |-> scores.personality_profile,
      bias_indicators |-> scores.bias_indicators ]

\* no DPQResults yet
NoResults == [dog_id |-> "none"]

\* nothing saved yet
NoFiles == <<>>

\* no ServiceManager constructed
NoManager == [initialized |-> "none"]

\* no operation on the ServiceManager yet
NoOutcome == [op |-> "none"]

\* no recommendations asked for yet
NoList == <<"none">>

\* nothing formatted yet
NoResponse == [assessment_id |-> "none"]

----------------------------------------------------------------------------
(* Response sets handed to score_assessment *)

\* the mapping {1: vals[1], ..., 45: vals[45]}
Complete(vals) == [i \in QuestionIds |-> vals[i]]

\* {i: v for i in range(1, 46)}
Uniform(v) == [i \in QuestionIds |-> v]

\* the fixtures of tests/test_dpq.py
sample_responses == Complete(<<
    4, 3, 4, 4, 5, 3, 2, 4, 4, 3,
    5, 4, 3, 5, 4, 4, 6, 6, 5, 6,
    3, 5, 3, 6, 2, 3, 3, 5, 3, 2,
    4, 5, 5, 5, 4, 2, 6, 3, 2, 2,
    5, 3, 5, 4, 4 >>)

fearful_responses == Complete(<<
    2, 2, 6, 3, 4, 6, 2, 3, 4, 3,
    2, 3, 6, 4, 3, 7, 4, 5, 4, 5,
    6, 3, 2, 4, 2, 4, 6, 4, 4, 2,
    3, 4, 4, 4, 6, 2, 5, 4, 2, 3,
    4, 6, 4, 7, 3 >>)

trainable_responses == Complete(<<
    6, 2, 3, 2, 7, 2, 1, 4, 2, 1,
    6, 3, 2, 6, 4, 3, 6, 7, 6, 7,
    2, 6, 3, 6, 1, 2, 2, 6, 2, 1,
    4, 7, 6, 6, 3, 1, 7, 2, 2, 1,
    6, 2, 7, 3, 3 >>)

\* {i: 6 if i not in [1, 11, 18, 19, 22, 26, 28, 34, 38, 41] else 2 for i in range(1, 46)}
bias_test_responses ==
    [i \in QuestionIds |-> IF i \in {1, 11, 18, 19, 22, 26, 28, 34, 38, 41} THEN 2 ELSE 6]

\* {1: 4, 2: 4, 3: 4}
minimal_responses == [i \in {1, 2, 3} |-> 4]

\* every item answered in line with facet score v: v on the plain items and
\* 8 - v on the reverse-coded ones
Consistent(v) ==
    [i \in QuestionIds |-> IF i \in Range(ReverseItems) THEN ReverseBase - v ELSE v]

BaseResponses ==
    {EmptyDict, minimal_responses, sample_responses, fearful_responses,
     trainable_responses, bias_test_responses}
    \cup {Uniform(v) : v \in Scale} \cup {Consistent(v) : v \in Scale}

\* the sets of at most k items of one facet
ItemSetsUpTo(k) ==
    {ids \in UNION {SUBSET Range(AllFacets[f].items) : f \in 1..Len(AllFacets)} :
        Cardinality(ids) <= k}

\* marks an item the caller leaves out
Absent == 0

\* what the caller does to at most MaxOverrides items: a new rating, or Absent
Overrides ==
    UNION {[ids -> Scale \cup {Absent}] : ids \in ItemSetsUpTo(MaxOverrides)}

\* base with the entries of ov re-rated or left out
Override(base, ov) ==
    LET ids == ((DOMAIN base) \ {i \in DOMAIN ov : ov[i] = Absent})
                \cup {i \in DOMAIN ov : ov[i] # Absent}
    IN  [i \in ids |-> IF i \in DOMAIN ov THEN ov[i] ELSE base[i]]

ResponseSets == {Override(base, ov) : base \in BaseResponses, ov \in Overrides}

\* the dog_id argument, "Unknown" when omitted
DogIds == {"Unknown", "TestDog"}

\* the readings of datetime.now()
Times == 1..MaxTime

----------------------------------------------------------------------------
(* The state machine: a caller holds a response mapping and scores it *)

TypeOK ==
    /\ DOMAIN responses \subseteq QuestionIds
    /\ \A i \in DOMAIN responses : responses[i] \in Scale
    /\ pc \in {"ready", "scored"}

\* the attributes __init__ gives a DogPersonalityQuestionnaire: the keys of
\* self.questions, self.scoring_structure and the keys of self.scale_labels
Questionnaire ==
    [ questions |-> QuestionIds,
      scoring_structure |-> scoring_structure,
      scale_labels |-> Scale ]

\* no step-by-step call has been made and no dict allocated
NoCalls == <<>>

EmptyHeap == <<>>

Init ==
    /\ responses \in ResponseSets
    /\ pc = "ready"
    /\ results = NoResults
    /\ dpq = Questionnaire
    /\ calls = NoCalls
    /\ heap = EmptyHeap
    /\ changes = 0
    /\ files = NoFiles
    /\ loaded = NoResults
    /\ manager = NoManager
    /\ outcome = NoOutcome
    /\ recommendations = NoList
    /\ response = NoResponse

\* results = dpq.score_assessment(responses, dog_id)
ScoreAssessment ==
    /\ pc = "ready"
    /\ results' \in
          LET scores == Scores(responses) IN
          {DPQResults(dog_id, now, CallerDict, scores) : dog_id \in DogIds, now \in Times}
    /\ pc' = "scored"
    /\ UNCHANGED <<responses, dpq, calls, heap, changes, files, loaded, manager, outcome, recommendations, response>>

Next == ScoreAssessment

Spec == Init /\ [][Next]_vars

----------------------------------------------------------------------------
(* Several calls of score_assessment on one DogPersonalityQuestionnaire,   *)
(* each running step by step, the caller passing every call its mapping    *)

\* how many calls of score_assessment are made
MaxCalls == 2

\* how many times the caller changes its mapping
MaxChanges == 1

\* how many distinct readings datetime.now() returns to these calls
MaxClock == 2

Calls == 1..MaxCalls

Clock == 1..MaxClock

\* no dict object
NoObject == "None"

\* the dict that responses.copy() allocates in call c
WorkingCopy(c) == "copy@" \o ToString(c)

\* the object the name processed_responses is bound to by
\*   processed_responses = responses      (no copy: the caller's dict itself)
CopyTarget_Alias(c) == CallerDict

\* the object the working copy is kept in when it is an attribute of the
\* instance, one for all calls:  self.processed_responses = responses.copy()
CopyTarget_Shared(c) == WorkingCopy(1)

\* the object the name processed_responses is bound to by
\*   processed_responses = responses.copy()
CopyTarget(c) == WorkingCopy(c)

\* the mapping a dict object holds
Deref(ref) == IF ref = CallerDict THEN responses ELSE heap[ref]

\* the dict object ref is given the contents d
Write(ref, d) ==
    IF ref = CallerDict
    THEN responses' = d /\ heap' = heap
    ELSE heap' = Put(heap, ref, d) /\ responses' = responses

\* the facets of a scoring structure in the order of the nested loops
FacetsIn(structure) == Concat([i \in 1..Len(structure) |-> structure[i].facets])

\* the items the reverse-coding loops visit in a scoring structure
ReverseIn(structure) ==
    LET facets == FacetsIn(structure) IN
    Concat([i \in 1..Len(facets) |-> facets[i].reverse])

\* the frame of a call that has not been made; called_with remembers what
\* the caller's mapping held when it was passed to the call
IdleFrame ==
    [ pc |-> "idle",
      dog_id |-> "none",
      called_with |-> EmptyDict,
      processed_responses |-> NoObject,
      facet_scores |-> EmptyDict,
      factor_scores |-> EmptyDict,
      returned |-> NoResults ]

\* the mappings the caller starts with
CallInputs ==
    {EmptyDict, minimal_responses, fearful_responses, Uniform(7)}

\* the entries the caller changes, and the ratings it gives them
ChangeKeys == {1, 6}

ChangeValues == {1, 7}

InitCalls ==
    /\ responses \in CallInputs
    /\ pc = "ready"
    /\ results = NoResults
    /\ dpq = Questionnaire
    /\ calls = [c \in Calls |-> IdleFrame]
    /\ heap = EmptyHeap
    /\ changes = 0
    /\ files = NoFiles
    /\ loaded = NoResults
    /\ manager = NoManager
    /\ outcome = NoOutcome
    /\ recommendations = NoList
    /\ response = NoResponse

\* the value of the dog_id parameter when the argument is omitted
DefaultDogId == "Unknown"

\* dpq.score_assessment(responses) is entered; the calls are numbered in the
\* order they are made
CallScoreAssessment(c) ==
    /\ calls[c].pc = "idle"
    /\ \A earlier \in 1..(c - 1) : calls[earlier].pc # "idle"
    /\ calls' = [calls EXCEPT ![c] = [IdleFrame EXCEPT !.pc = "copy",
                                                        !.dog_id = DefaultDogId,
                                                        !.called_with = responses]]
    /\ UNCHANGED <<responses, pc, results, dpq, heap, changes, files, loaded, manager, outcome, recommendations, response>>

\* processed_responses = responses.copy()
CopyResponses(c) ==
    /\ calls[c].pc = "copy"
    /\ LET ref == CopyTarget(c) IN
       /\ Write(ref, responses)
       /\ calls' = [calls EXCEPT ![c].processed_responses = ref, ![c].pc = "reverse"]
    /\ UNCHANGED <<pc, results, dpq, changes, files, loaded, manager, outcome, recommendations, response>>

\* the scoring structure with every reverse list emptied
WithoutReverse(structure) ==
    [k \in 1..Len(structure) |->
        [structure[k] EXCEPT !.facets =
            [j \in 1..Len(structure[k].facets) |->
                [structure[k].facets[j] EXCEPT !.reverse = <<>>]]]]

\* the reverse-coding loops consuming the lists of the instance as they go:
\*   while facet_info["reverse"]: item = facet_info["reverse"].pop(0)
ReverseCodeItems_Pop(c) ==
    /\ calls[c].pc = "reverse"
    /\ LET ref == calls[c].processed_responses IN
       Write(ref, ReverseCode(Deref(ref), ReverseIn(dpq.scoring_structure)))
    /\ calls' = [calls EXCEPT ![c].pc = "facets"]
    /\ dpq' = [dpq EXCEPT !.scoring_structure = WithoutReverse(dpq.scoring_structure)]
    /\ UNCHANGED <<pc, results, changes, files, loaded, manager, outcome, recommendations, response>>

\* the reverse-coding loops over self.scoring_structure
ReverseCodeItems(c) ==
    /\ calls[c].pc = "reverse"
    /\ LET ref == calls[c].processed_responses IN
       Write(ref, ReverseCode(Deref(ref), ReverseIn(dpq.scoring_structure)))
    /\ calls' = [calls EXCEPT ![c].pc = "facets"]
    /\ UNCHANGED <<pc, results, dpq, changes, files, loaded, manager, outcome, recommendations, response>>

\* the loops that fill facet_scores
ComputeFacetScores(c) ==
    /\ calls[c].pc = "facets"
    /\ calls' = [calls EXCEPT
                    ![c].facet_scores =
                        FacetScores(FacetsIn(dpq.scoring_structure),
                                    Deref(calls[c].processed_responses), EmptyDict),
                    ![c].pc = "factors"]
    /\ UNCHANGED <<responses, pc, results, dpq, heap, changes, files, loaded, manager, outcome, recommendations, response>>

\* the loop that fills factor_scores
ComputeFactorScores(c) ==
    /\ calls[c].pc = "factors"
    /\ calls' = [calls EXCEPT
                    ![c].factor_scores =
                        FactorScores(dpq.scoring_structure, calls[c].facet_scores, EmptyDict),
                    ![c].pc = "return"]
    /\ UNCHANGED <<responses, pc, results, dpq, heap, changes, files, loaded, manager, outcome, recommendations, response>>

\* the profile, the bias indicators and  return DPQResults(..., raw_scores=responses, ...)
ReturnResults(c) ==
    /\ calls[c].pc = "return"
    /\ calls' \in
          LET frame == calls[c]
              scores == [ factor_scores |-> frame.factor_scores,
                          facet_scores |-> frame.facet_scores,
                          personality_profile |->
                              generate_personality_profile(frame.factor_scores,
                                                           frame.facet_scores),
                          bias_indicators |->
                              calculate_bias_indicators(frame.factor_scores,
                                                        frame.facet_scores) ]
          IN  {[calls EXCEPT ![c].returned = DPQResults(frame.dog_id, now, CallerDict, scores),
                             ![c].pc = "done"] : now \in Clock}
    /\ UNCHANGED <<responses, pc, results, dpq, heap, changes, files, loaded, manager, outcome, recommendations, response>>

\* the caller adds, removes or re-rates an entry of its mapping; it does so
\* only while no call that was passed the mapping has yet to copy it
CallerChanges ==
    /\ changes < MaxChanges
    /\ \A c \in Calls : calls[c].pc # "copy"
    /\ \E k \in ChangeKeys, v \in ChangeValues \cup {Absent} :
          /\ responses' = Override(responses, [x \in {k} |-> v])
          /\ responses' # responses
    /\ changes' = changes + 1
    /\ UNCHANGED <<pc, results, dpq, calls, heap, files, loaded, manager, outcome, recommendations, response>>

\* a step of a call touches the call's own locals and working copy, reads
\* the caller's mapping (once, in the copy) and reads the instance; threads
\* may be switched between any two steps
NextCalls ==
    \/ \E c \in Calls :
          \/ CallScoreAssessment(c)
          \/ CopyResponses(c)
          \/ ReverseCodeItems(c)
          \/ ComputeFacetScores(c)
          \/ ComputeFactorScores(c)
          \/ ReturnResults(c)
    \/ CallerChanges

SpecCalls == InitCalls /\ [][NextCalls]_vars

----------------------------------------------------------------------------
(* Mappings as a frontend or another caller may hand them over: entries    *)
(* under ids that are no question ids, ratings off the scale, str keys     *)

\* Python keeps the key "12" apart from the key 12.  A dict key of the model
\* is a number; the key str(n) is the number StrBase + n, apart from every
\* int key the model uses
StrBase == 1000

\* str(n)
StrKey(n) == StrBase + n

\* isinstance(k, str)
IsStr(k) == k >= StrBase

\* int(k): the number a str key spells, an int key as it is
IntOf(k) == IF IsStr(k) THEN k - StrBase ELSE k

\* {str(i): base[i] for i in base}: the mapping as the JSON of a request carries it
StrKeyed(base) ==
    [k \in {StrKey(i) : i \in DOMAIN base} |-> base[IntOf(k)]]

\* the conversion with the keys left as they come:  numeric_responses = responses
numeric_responses_Uncoerced(request) == request

\* numeric_responses = {int(k): v for k, v in responses.items()}
numeric_responses(request) ==
    [i \in {IntOf(k) : k \in DOMAIN request} |->
        request[CHOOSE k \in DOMAIN request : IntOf(k) = i]]

\* the dict the conversion builds, which the caller then passes to score_assessment
CoercedDict == "responses_int"

\* ids that name no question, and the ratings entered under them
OtherIds == {0, 46}

OtherRatings == {1, 7}

\* ratings off the 1..7 scale
OffScale == {0, 8}

\* the items that are given a rating off the scale: item 1 is reverse-coded, item 6 is not
OffScaleItems == {1, 6}

WideBases ==
    {EmptyDict, minimal_responses, fearful_responses, trainable_responses,
     Uniform(4), Uniform(7)}

\* base with the entries of extra added
WithEntries(base, extra) ==
    [i \in (DOMAIN base) \cup (DOMAIN extra) |->
        IF i \in DOMAIN extra THEN extra[i] ELSE base[i]]

WideResponseSets ==
    {WithEntries(base, extra) :
        base \in WideBases,
        extra \in UNION {[ids -> OtherRatings] : ids \in SUBSET OtherIds}}
    \cup {WithEntries(base, [x \in {i} |-> v]) :
            base \in WideBases, i \in OffScaleItems, v \in OffScale}
    \cup {StrKeyed(base) : base \in WideBases}

InitWide ==
    /\ responses \in WideResponseSets
    /\ pc = "ready"
    /\ results = NoResults
    /\ dpq = Questionnaire
    /\ calls = NoCalls
    /\ heap = EmptyHeap
    /\ changes = 0
    /\ files = NoFiles
    /\ loaded = NoResults
    /\ manager = NoManager
    /\ outcome = NoOutcome
    /\ recommendations = NoList
    /\ response = NoResponse

\* responses_int = {int(k): v for k, v in responses.items()}
\* dpq_results = dpq.score_assessment(responses_int, dog_id=...)
ScoreCoerced ==
    /\ pc = "ready"
    /\ results' \in
          LET scores == Scores(numeric_responses(responses)) IN
          {DPQResults(dog_id, now, CoercedDict, scores) : dog_id \in DogIds, now \in Times}
    /\ pc' = "scored"
    /\ UNCHANGED <<responses, dpq, calls, heap, changes, files, loaded, manager, outcome, recommendations, response>>

NextWide ==
    \/ ScoreAssessment
    \/ ScoreCoerced

SpecWide == InitWide /\ [][NextWide]_vars

----------------------------------------------------------------------------
(* Questionnaires answered with one rating throughout, some items left out *)

\* the ratings of the all-neutral and the all-agree questionnaires of the tests
UniformRatings == {4, 7}

\* {i: v for i in range(1, 46)} with at most MaxOverrides items of one facet
\* re-rated or left out
UniformSets == {Override(Uniform(v), ov) : v \in UniformRatings, ov \in Overrides}

InitUniform ==
    /\ responses \in UniformSets
    /\ pc = "ready"
    /\ results = NoResults
    /\ dpq = Questionnaire
    /\ calls = NoCalls
    /\ heap = EmptyHeap
    /\ changes = 0
    /\ files = NoFiles
    /\ loaded = NoResults
    /\ manager = NoManager
    /\ outcome = NoOutcome
    /\ recommendations = NoList
    /\ response = NoResponse

SpecUniform == InitUniform /\ [][Next]_vars

----------------------------------------------------------------------------
(* Questionnaires answered in the pattern of the fearful and of the
   trainable fixture of tests/test_dpq.py *)

\* f extended by g
Merge(f, g) == [i \in (DOMAIN f) \cup (DOMAIN g) |-> IF i \in DOMAIN f THEN f[i] ELSE g[i]]

\* the ratings of the items outside a pattern: lowest, highest, the balanced fixture
OtherRatingsOf == {Uniform(1), Uniform(ScaleMax), sample_responses}

\* fearful_responses and its like: the reverse-coded items of Factor 1 rated
\* 3 or less, its other nine items rated 6 or more
FearfulAnswers ==
    {Merge(low, high) : low \in [{1, 11, 22} -> 1..3],
                        high \in [{3, 6, 13, 16, 21, 27, 35, 42, 44} -> 6..ScaleMax]}

\* trainable_responses and its like: items 5, 14, 17, 32, 33, 43 rated 6 or
\* more, the reverse-coded items of Factor 4 rated 2 or less
TrainableAnswers ==
    {Merge(low, high) : low \in [{10, 29, 38} -> 1..2],
                        high \in [{5, 14, 17, 32, 33, 43} -> 6..ScaleMax]}

ProfileSets ==
    {Override(base, answers) : base \in OtherRatingsOf,
                               answers \in FearfulAnswers \cup TrainableAnswers}
    \cup {fearful_responses, trainable_responses}

InitProfiles ==
    /\ responses \in ProfileSets
    /\ pc = "ready"
    /\ results = NoResults
    /\ dpq = Questionnaire
    /\ calls = NoCalls
    /\ heap = EmptyHeap
    /\ changes = 0
    /\ files = NoFiles
    /\ loaded = NoResults
    /\ manager = NoManager
    /\ outcome = NoOutcome
    /\ recommendations = NoList
    /\ response = NoResponse

SpecProfiles == InitProfiles /\ [][Next]_vars

----------------------------------------------------------------------------
(* DPQAnalyzer.save_results and load_results *)

\* asdict(results): the fields as a dict, the nested dicts copied
asdict(r) == [r EXCEPT !.raw_scores = Deref(r.raw_scores)]

\* the key json.dump writes for a dict key: a str as it is, the int n as str(n)
JsonKey(k) == IF IsStr(k) THEN k ELSE StrKey(k)

\* json.dump of a dict: every key written as a str; where two keys are
\* written alike the document holds one of their values
JsonObject(d) ==
    [name \in {JsonKey(k) : k \in DOMAIN d} |->
        d[CHOOSE k \in DOMAIN d : JsonKey(k) = name]]

\* the document json.dump(asdict(results), f) writes and json.load reads
\* back: strings and numbers come back as they were (repr of a float reads
\* back as the same float), the keys of raw_scores as strs; the keys of the
\* other dicts are strs already
JsonDocument(d) == [d EXCEPT !.raw_scores = JsonObject(@)]

\* the temporary file of the test and a path nothing was saved to
Paths == {"results.json", "missing.json"}

\* the dict the loaded DPQResults holds as raw_scores
LoadedDict == "data.raw_scores"

\* return None
PyNone == [dog_id |-> "None"]

\* the results the analyzer tests and the API save: the fixtures, partial
\* and empty mappings, a mapping with the str keys of a request
SavedInputs ==
    {EmptyDict, minimal_responses, StrKeyed(minimal_responses), sample_responses,
     fearful_responses, trainable_responses, bias_test_responses}
    \cup {Uniform(v) : v \in Scale}

InitFiles ==
    /\ responses \in SavedInputs
    /\ pc = "ready"
    /\ results = NoResults
    /\ dpq = Questionnaire
    /\ calls = NoCalls
    /\ heap = EmptyHeap
    /\ changes = 0
    /\ files = NoFiles
    /\ loaded = NoResults
    /\ manager = NoManager
    /\ outcome = NoOutcome
    /\ recommendations = NoList
    /\ response = NoResponse

\* save_results(results, filepath)
SaveResults(filepath) ==
    /\ pc = "scored"
    /\ files' = Put(files, filepath, JsonDocument(asdict(results)))
    /\ pc' = "saved"
    /\ UNCHANGED <<responses, results, dpq, calls, heap, changes, loaded, manager, outcome, recommendations, response>>

\* load_results(filepath): DPQResults(**data), or None when open() raises
LoadResults(filepath) ==
    /\ pc = "saved"
    /\ IF filepath \in DOMAIN files
       THEN LET data == files[filepath] IN
            /\ loaded' = [data EXCEPT !.raw_scores = LoadedDict]
            /\ heap' = Put(heap, LoadedDict, data.raw_scores)
       ELSE /\ loaded' = PyNone
            /\ heap' = heap
    /\ pc' = "loaded"
    /\ UNCHANGED <<responses, results, dpq, calls, changes, files, manager, outcome, recommendations, response>>

NextFiles ==
    \/ ScoreAssessment
    \/ \E filepath \in Paths : SaveResults(filepath)
    \/ \E filepath \in Paths : LoadResults(filepath)

SpecFiles == InitFiles /\ [][NextFiles]_vars

----------------------------------------------------------------------------
(* One questionnaire scored again after the caller re-rates an item of
   Factor 1: the calls run one after the other and are kept for comparison *)

\* the items of a factor, and those of them its facets flag as reverse-coded
ItemsOf(factor) == Range(Concat([k \in 1..Len(factor.facets) |-> factor.facets[k].items]))

ReverseItemsOf(factor) ==
    Range(Concat([k \in 1..Len(factor.facets) |-> factor.facets[k].reverse]))

\* the questionnaires re-rated: the one of test_bias_indicators_logic and the
\* balanced fixture
RescoredInputs == {bias_test_responses, sample_responses}

InitRescore ==
    /\ responses \in RescoredInputs
    /\ pc = "ready"
    /\ results = NoResults
    /\ dpq = Questionnaire
    /\ calls = NoCalls
    /\ heap = EmptyHeap
    /\ changes = 0
    /\ files = NoFiles
    /\ loaded = NoResults
    /\ manager = NoManager
    /\ outcome = NoOutcome
    /\ recommendations = NoList
    /\ response = NoResponse

\* results = dpq.score_assessment(responses), run to its return, on the
\* questionnaire as first filled in or as re-rated since the last call; the
\* frame is kept with the mapping the call was given
ScoreAndKeep ==
    /\ Len(calls) < MaxCalls
    /\ changes = Len(calls)
    /\ calls' \in
          LET scores == Scores(responses) IN
          {Append(calls, [IdleFrame EXCEPT
                             !.pc = "done",
                             !.dog_id = DefaultDogId,
                             !.called_with = responses,
                             !.facet_scores = scores.facet_scores,
                             !.factor_scores = scores.factor_scores,
                             !.returned = DPQResults(DefaultDogId, now, CallerDict, scores)])
             : now \in Times}
    /\ UNCHANGED <<responses, pc, results, dpq, heap, changes, files, loaded, manager, outcome, recommendations, response>>

\* the ratings an item rated v is moved to: one step up or down, or to an
\* end of the scale
Rerated(v) == ({v - 1, v + 1, 1, ScaleMax} \cap Scale) \ {v}

\* responses[item] = v for an item of Factor 1, between two calls; every
\* call but the first is made on a re-rated questionnaire
Rerate ==
    /\ changes < Len(calls)
    /\ Len(calls) < MaxCalls
    /\ \E item \in ItemsOf(Fearfulness) :
          \E v \in Rerated(responses[item]) :
              responses' = Override(responses, [x \in {item} |-> v])
    /\ changes' = changes + 1
    /\ UNCHANGED <<pc, results, dpq, calls, heap, files, loaded, manager, outcome, recommendations, response>>

NextRescore == ScoreAndKeep \/ Rerate

SpecRescore == InitRescore /\ [][NextRescore]_vars

----------------------------------------------------------------------------
(* DPQAnalyzer._generate_recommendations *)

\* d.get(k, default)
Get(d, k, default) == IF k \in DOMAIN d THEN d[k] ELSE default

\* the thresholds 0.6, 0.5 and 0.4 of the branches
RecommendAbove == Rat(3, 5)

RecommendAggressionAbove == Rat(1, 2)

RecommendBelow == Rat(2, 5)

\* results.bias_indicators.get(name, 0)
Indicator(r, name) == Get(r.bias_indicators, name, FromInt(0))

\* if results.bias_indicators.get("fearfulness_bias", 0) > 0.6: two entries
FearfulnessRecommendations(r) ==
    IF RLt(RecommendAbove, Indicator(r, "fearfulness_bias"))
    THEN <<"Use calm, reassuring tones and avoid sudden or loud vocalizations",
           "Interpret neutral behaviors as potentially anxiety-related">>
    ELSE <<>>

\* if results.bias_indicators.get("aggression_bias", 0) > 0.5: two entries
AggressionRecommendations(r) ==
    IF RLt(RecommendAggressionAbove, Indicator(r, "aggression_bias"))
    THEN <<"Be cautious with territorial or protective interpretations",
           "Avoid aggressive or confrontational communication styles">>
    ELSE <<>>

\* if results.bias_indicators.get("excitability_bias", 0) > 0.6: two entries
ExcitabilityRecommendations(r) ==
    IF RLt(RecommendAbove, Indicator(r, "excitability_bias"))
    THEN <<"Expect high-energy responses and enthusiastic communications",
           "May need to moderate excitement levels in translations">>
    ELSE <<>>

\* TrainabilityRecommendations without its else branch
TrainabilityRecommendations_NoElse(r) ==
    IF RLt(RecommendAbove, Indicator(r, "trainability_bias"))
    THEN <<"Dog likely responds well to clear commands and structure">>
    ELSE <<>>

\* if results.bias_indicators.get("trainability_bias", 0) > 0.6: ... else: ...
TrainabilityRecommendations(r) ==
    IF RLt(RecommendAbove, Indicator(r, "trainability_bias"))
    THEN <<"Dog likely responds well to clear commands and structure">>
    ELSE <<"May need more patience and alternative communication approaches">>

\* the two ifs on social_confidence and dog_sociability below 0.4
SocialRecommendations(r) ==
    (IF RLt(Indicator(r, "social_confidence"), RecommendBelow)
     THEN <<"Approach social situations gradually and with extra care">>
     ELSE <<>>)
    \o (IF RLt(Indicator(r, "dog_sociability"), RecommendBelow)
        THEN <<"Be cautious around other dogs, may prefer human company">>
        ELSE <<>>)

\* if results.bias_indicators.get("activity_level", 0) > 0.6: ... else: ...
ActivityRecommendations(r) ==
    IF RLt(RecommendAbove, Indicator(r, "activity_level"))
    THEN <<"Expect active, movement-oriented communications">>
    ELSE <<"Dog may prefer calm, low-energy interactions">>

\* the list _generate_recommendations builds, in the order of its appends
generate_recommendations(r) ==
    FearfulnessRecommendations(r) \o AggressionRecommendations(r)
    \o ExcitabilityRecommendations(r) \o TrainabilityRecommendations(r)
    \o SocialRecommendations(r) \o ActivityRecommendations(r)

\* the indicators _generate_recommendations looks up
RecommendationIndicators ==
    {"fearfulness_bias", "aggression_bias", "excitability_bias", "trainability_bias",
     "social_confidence", "dog_sociability", "activity_level"}

\* the bias indicators of a DPQResults put together by hand: none at all, or
\* each of the indicators at one of its extremes 0.0 and 1.0
HandBuiltIndicators ==
    {EmptyDict} \cup [RecommendationIndicators -> {FromInt(0), FromInt(1)}]

\* DPQResults(dog_id, date, {}, {}, {}, {}, bias_indicators)
HandBuiltResults ==
    {DPQResults("TestDog", 1, CallerDict,
                [factor_scores |-> EmptyDict, facet_scores |-> EmptyDict,
                 personality_profile |-> EmptyDict, bias_indicators |-> b])
        : b \in HandBuiltIndicators}

\* the questionnaires the analyzer is given the results of: the one of
\* TestDPQAnalyzer.setUp, neutral, and every facet at an end of the scale
AnalyzedInputs ==
    {sample_responses, fearful_responses, trainable_responses,
     Uniform(4), Consistent(1), Consistent(ScaleMax)}

InitAnalyzer ==
    /\ responses \in AnalyzedInputs
    /\ pc = "ready"
    /\ results = NoResults
    /\ dpq = Questionnaire
    /\ calls = NoCalls
    /\ heap = EmptyHeap
    /\ changes = 0
    /\ files = NoFiles
    /\ loaded = NoResults
    /\ manager = NoManager
    /\ outcome = NoOutcome
    /\ recommendations = NoList
    /\ response = NoResponse

\* a DPQResults that does not come from score_assessment
BuildResults ==
    /\ pc = "ready"
    /\ results' \in HandBuiltResults
    /\ pc' = "scored"
    /\ UNCHANGED <<responses, dpq, calls, heap, changes, files, loaded, manager, outcome,
                   recommendations, response>>

\* recommendations = analyzer._generate_recommendations(results)
GenerateRecommendations ==
    /\ pc = "scored"
    /\ recommendations' = generate_recommendations(results)
    /\ pc' = "analyzed"
    /\ UNCHANGED <<responses, results, dpq, calls, heap, changes, files, loaded, manager,
                   outcome, response>>

NextAnalyzer == ScoreAssessment \/ BuildResults \/ GenerateRecommendations

SpecAnalyzer == InitAnalyzer /\ [][NextAnalyzer]_vars

----------------------------------------------------------------------------
(* Questionnaires that take the scores to the ends of their ranges: every
   item of a factor answered in line with one facet score *)

\* the factor (by position in the declaration order) each item belongs to
FactorOfItem ==
    [i \in QuestionIds |->
        CHOOSE k \in 1..Len(scoring_structure) : i \in ItemsOf(scoring_structure[k])]

\* the facet scores the answers are in line with: the ends and the midpoint
FactorLevels == {1, NeutralScore, ScaleMax}

\* the items of factor k answered in line with facet score levels[k]: that
\* rating on the plain items, 8 minus it on the reverse-coded ones
FactorLevelled(levels) ==
    [i \in QuestionIds |->
        IF i \in Range(ReverseItems) THEN ReverseBase - levels[FactorOfItem[i]]
        ELSE levels[FactorOfItem[i]]]

ExtremeSets ==
    {FactorLevelled(levels) : levels \in [1..Len(scoring_structure) -> FactorLevels]}
    \cup {EmptyDict, minimal_responses, Uniform(1), Uniform(ScaleMax)}

InitExtremes ==
    /\ responses \in ExtremeSets
    /\ pc = "ready"
    /\ results = NoResults
    /\ dpq = Questionnaire
    /\ calls = NoCalls
    /\ heap = EmptyHeap
    /\ changes = 0
    /\ files = NoFiles
    /\ loaded = NoResults
    /\ manager = NoManager
    /\ outcome = NoOutcome
    /\ recommendations = NoList
    /\ response = NoResponse

SpecExtremes == InitExtremes /\ [][Next]_vars

----------------------------------------------------------------------------
(* DPQResponseFormatter.format_assessment_response: the personality factors
   and the personality summary of the response *)

\* the thresholds 3.5 and 2.5 of _get_level_from_score, below HighThreshold
\* 5.5 and ModerateThreshold 4.5
ModerateLevelThreshold == Rat(7, 2)

ModerateLowThreshold == Rat(5, 2)

\* _get_level_from_score(score)
get_level_from_score(score) ==
    IF RGe(score, HighThreshold) THEN "High"
    ELSE IF RGe(score, ModerateThreshold) THEN "Moderate-High"
    ELSE IF RGe(score, ModerateLevelThreshold) THEN "Moderate"
    ELSE IF RGe(score, ModerateLowThreshold) THEN "Moderate-Low"
    ELSE "Low"

\* round(score, 1) of a score >= 0: the nearest tenth, a tie going to the
\* even tenth
RoundToTenth(score) ==
    LET tenths == (10 * score[1]) \div score[2]
        twice == 2 * ((10 * score[1]) % score[2])
    IN  IF twice > score[2] \/ (twice = score[2] /\ tenths % 2 = 1)
        THEN Rat(tenths + 1, 10)
        ELSE Rat(tenths, 10)

\* the keys of factor_scores in insertion order: score_assessment fills the
\* dict in the order of the scoring structure
FactorKeys(factor_scores) ==
    LET names == [k \in 1..Len(scoring_structure) |-> scoring_structure[k].name]
    IN  SelectSeq(names, LAMBDA name : name \in DOMAIN factor_scores)

\* _format_personality_factors(factor_scores), without the description texts
format_personality_factors(factor_scores) ==
    [factor_name \in DOMAIN factor_scores |->
        [score |-> RoundToTenth(factor_scores[factor_name]),
         level |-> get_level_from_score(factor_scores[factor_name])]]

\* the trait the summary appends for a factor at level High, by the name the
\* formatter compares factor_name with
SummaryTraits ==
    [activity_excitability |-> "Energetic/Excitable",
     training_responsiveness |-> "Trainable/Responsive",
     fearfulness |-> "Sensitive/Cautious"]

\* _determine_primary_type(high_factors)
determine_primary_type(high_factors) ==
    IF "activity_excitability" \in Range(high_factors)
       /\ "training_responsiveness" \in Range(high_factors)
    THEN "High-Energy Companion"
    ELSE IF "activity_excitability" \in Range(high_factors) THEN "Energetic Explorer"
    ELSE IF "training_responsiveness" \in Range(high_factors) THEN "Eager Learner"
    ELSE IF "fearfulness" \in Range(high_factors) THEN "Sensitive Soul"
    ELSE IF Len(high_factors) = 0 THEN "Balanced Companion"
    ELSE "Unique Personality"

\* the characteristic _generate_key_characteristics appends for a factor
\* name at a level, if any
KeyCharacteristic(factor_name, level) ==
    IF factor_name = "activity_excitability" /\ level = "High"
    THEN <<"Very energetic and playful">>
    ELSE IF factor_name = "training_responsiveness" /\ level = "High"
    THEN <<"Highly trainable and responsive">>
    ELSE IF factor_name = "aggression_people" /\ level = "Low"
    THEN <<"Generally friendly with people">>
    ELSE IF factor_name = "fearfulness" /\ level = "High"
    THEN <<"Sensitive and needs gentle handling">>
    ELSE <<>>

\* _generate_key_characteristics(personality_factors)
generate_key_characteristics(keys, personality_factors) ==
    LET characteristics ==
            Concat([k \in 1..Len(keys) |->
                       KeyCharacteristic(keys[k], personality_factors[keys[k]].level)])
        filled == IF characteristics = <<>>
                  THEN <<"Well-balanced personality", "Adaptable to various situations">>
                  ELSE characteristics
    IN  SubSeq(filled, 1, IF Len(filled) < 5 THEN Len(filled) ELSE 5)

\* _generate_personality_summary(personality_factors), the dict visited in
\* the order of keys
generate_personality_summary(keys, personality_factors) ==
    LET high_factors ==
            SelectSeq(keys, LAMBDA factor_name :
                                personality_factors[factor_name].level = "High")
        named == SelectSeq(high_factors,
                           LAMBDA factor_name : factor_name \in DOMAIN SummaryTraits)
        dominant_traits == [k \in 1..Len(named) |-> SummaryTraits[named[k]]]
    IN  [dominant_traits |->
             SubSeq(dominant_traits, 1,
                    IF Len(dominant_traits) < 2 THEN Len(dominant_traits) ELSE 2),
         primary_type |-> determine_primary_type(high_factors),
         key_characteristics |-> generate_key_characteristics(keys, personality_factors)]

\* the response dict as far as it is computed from the factor scores and the
\* responses: "responses", "personality_factors" and "personality_summary"
format_assessment_response(dpq_results, request_responses) ==
    LET personality_factors == format_personality_factors(dpq_results.factor_scores)
        keys == FactorKeys(dpq_results.factor_scores)
    IN  [assessment_id |-> "uuid4",
         responses |-> JsonObject(request_responses),
         personality_factors |-> personality_factors,
         personality_summary |-> generate_personality_summary(keys, personality_factors)]

\* the questionnaires formatted: the fixtures and the questionnaires that put
\* the factors at the ends and the midpoint of the scale
FormattedInputs ==
    ExtremeSets \cup {sample_responses, fearful_responses, trainable_responses}

InitFormatter ==
    /\ responses \in FormattedInputs
    /\ pc = "ready"
    /\ results = NoResults
    /\ dpq = Questionnaire
    /\ calls = NoCalls
    /\ heap = EmptyHeap
    /\ changes = 0
    /\ files = NoFiles
    /\ loaded = NoResults
    /\ manager = NoManager
    /\ outcome = NoOutcome
    /\ recommendations = NoList
    /\ response = NoResponse

\* dpq_results_dict = {'factor_scores': dpq_results.factor_scores, ...}
\* complete_response = formatter.format_assessment_response(dpq_results_dict, ...)
FormatAssessmentResponse ==
    /\ pc = "scored"
    /\ response' = format_assessment_response(results, responses)
    /\ pc' = "formatted"
    /\ UNCHANGED <<responses, results, dpq, calls, heap, changes, files, loaded, manager,
                   outcome, recommendations>>

NextFormatter == ScoreAssessment \/ FormatAssessmentResponse

SpecFormatter == InitFormatter /\ [][NextFormatter]_vars

----------------------------------------------------------------------------
(* app/services/service_manager.py: the ServiceManager and the operations
   called on it.  calls is the list of the operations called, in call order,
   each with how it ended; an operation that awaits a service stays in
   flight until the service answers, and other operations run meanwhile *)

\* how many operations are called on the ServiceManager
MaxOps == 3

\* the names _initialize_services registers
ServiceNames == {"dpq", "claude", "video"}

\* the names restart_service is called with
RestartNames == ServiceNames \cup {"unknown"}

\* self.services after _initialize_services, each name with the number of
\* the instance registered under it; self.initialized = True
Constructed ==
    [services |-> [service_name \in ServiceNames |-> 1],
     service_status |-> EmptyDict,
     initialized |-> TRUE]

\* return self.initialized and len(self.services) > 0
is_healthy(m) == m.initialized /\ Cardinality(DOMAIN m.services) > 0

\* shutdown that leaves self.initialized as it is
ShutDown_KeepsInitialized(m) == [m EXCEPT !.services = EmptyDict]

\* self.services.clear(); self.initialized = False
ShutDown(m) == [m EXCEPT !.services = EmptyDict, !.initialized = FALSE]

\* the record of an operation that has ended without raising
Ended(op, arg) ==
    [op |-> op, arg |-> arg, pc |-> "done", raised |-> "none",
     invoked |-> <<>>, returned |-> "None"]

\* str(bool)
PyBool(b) == IF b THEN "True" ELSE "False"

InitManager ==
    /\ responses = EmptyDict
    /\ pc = "ready"
    /\ results = NoResults
    /\ dpq = Questionnaire
    /\ calls = NoCalls
    /\ heap = EmptyHeap
    /\ changes = 0
    /\ files = NoFiles
    /\ loaded = NoResults
    /\ manager = Constructed
    /\ outcome = NoOutcome
    /\ recommendations = NoList
    /\ response = NoResponse

\* an operation that ends within the step that calls it
EndsWith(frame) ==
    /\ calls' = Append(calls, frame)
    /\ outcome' = frame

\* service_manager.is_healthy()
IsHealthy ==
    /\ Len(calls) < MaxOps
    /\ EndsWith([Ended("is_healthy", "") EXCEPT !.returned = PyBool(is_healthy(manager))])
    /\ UNCHANGED <<responses, pc, results, dpq, heap, changes, files, loaded, manager,
                   recommendations, response>>

\* await service_manager.restart_service(service_name): ValueError for a
\* name that is not registered; otherwise a new instance is registered,
\* unless the constructor of ClaudeService or VideoService raises
RestartService(service_name) ==
    /\ Len(calls) < MaxOps
    /\ IF service_name \notin DOMAIN manager.services
       THEN /\ EndsWith([Ended("restart_service", service_name) EXCEPT
                            !.raised = "ValueError"])
            /\ manager' = manager
       ELSE \/ /\ manager' = [manager EXCEPT !.services[service_name] = @ + 1]
               /\ EndsWith([Ended("restart_service", service_name) EXCEPT
                               !.returned = "restarted"])
            \/ /\ service_name # "dpq"
               /\ manager' = manager
               /\ EndsWith([Ended("restart_service", service_name) EXCEPT
                               !.raised = "Exception"])
    /\ UNCHANGED <<responses, pc, results, dpq, heap, changes, files, loaded,
                   recommendations, response>>

\* await service_manager.shutdown()
Shutdown ==
    /\ Len(calls) < MaxOps
    /\ manager' = ShutDown(manager)
    /\ EndsWith(Ended("shutdown", ""))
    /\ UNCHANGED <<responses, pc, results, dpq, heap, changes, files, loaded,
                   recommendations, response>>

\* await service_manager.process_complete_assessment(assessment_data):
\* RuntimeError when not initialized; otherwise the dpq service is called,
\* which raises ValueError on responses it rejects and AttributeError on the
\* others (DogPersonalityQuestionnaire has no analyze_responses), without
\* awaiting anything that suspends
ProcessCompleteAssessment ==
    /\ Len(calls) < MaxOps
    /\ \E frame \in
          IF ~manager.initialized
          THEN {[Ended("process_complete_assessment", "") EXCEPT !.raised = "RuntimeError"]}
          ELSE IF "dpq" \notin DOMAIN manager.services
          THEN {[Ended("process_complete_assessment", "") EXCEPT !.raised = "KeyError"]}
          ELSE {[Ended("process_complete_assessment", "") EXCEPT
                    !.invoked = <<"dpq">>, !.raised = e] :
                  e \in {"ValueError", "AttributeError"}}
       : EndsWith(frame)
    /\ UNCHANGED <<responses, pc, results, dpq, heap, changes, files, loaded, manager,
                   recommendations, response>>

\* await service_manager.process_video_assessment(path, dog_info), up to the
\* first await: RuntimeError when not initialized; otherwise the video
\* service is called and the operation waits for it
ProcessVideoAssessment ==
    /\ Len(calls) < MaxOps
    /\ IF ~manager.initialized
       THEN EndsWith([Ended("process_video_assessment", "") EXCEPT !.raised = "RuntimeError"])
       ELSE IF "video" \notin DOMAIN manager.services
       THEN EndsWith([Ended("process_video_assessment", "") EXCEPT !.raised = "KeyError"])
       ELSE /\ calls' = Append(calls, [Ended("process_video_assessment", "") EXCEPT
                                          !.pc = "awaiting video",
                                          !.invoked = <<"video">>])
            /\ outcome' = outcome
    /\ UNCHANGED <<responses, pc, results, dpq, heap, changes, files, loaded, manager,
                   recommendations, response>>

\* the video service answers operation k: it raises, or it returns and the
\* operation goes on to self.services['claude'].analyze_behavior_insights
VideoAnswers(k) ==
    /\ calls[k].pc = "awaiting video"
    /\ \E frame \in
          {[calls[k] EXCEPT !.pc = "done", !.raised = "Exception"],
           IF "claude" \in DOMAIN manager.services
           THEN [calls[k] EXCEPT !.pc = "awaiting claude", !.invoked = Append(@, "claude")]
           ELSE [calls[k] EXCEPT !.pc = "done", !.raised = "KeyError"]} :
          /\ calls' = [calls EXCEPT ![k] = frame]
          /\ outcome' = IF frame.pc = "done" THEN frame ELSE outcome
    /\ UNCHANGED <<responses, pc, results, dpq, heap, changes, files, loaded, manager,
                   recommendations, response>>

\* the claude service answers operation k: it raises, or it returns and the
\* operation returns the combined results
ClaudeAnswers(k) ==
    /\ calls[k].pc = "awaiting claude"
    /\ \E frame \in
          {[calls[k] EXCEPT !.pc = "done", !.raised = "Exception"],
           [calls[k] EXCEPT !.pc = "done", !.returned = "complete_video_results"]} :
          /\ calls' = [calls EXCEPT ![k] = frame]
          /\ outcome' = frame
    /\ UNCHANGED <<responses, pc, results, dpq, heap, changes, files, loaded, manager,
                   recommendations, response>>

NextManager ==
    \/ IsHealthy
    \/ \E service_name \in RestartNames : RestartService(service_name)
    \/ Shutdown
    \/ ProcessCompleteAssessment
    \/ ProcessVideoAssessment
    \/ \E k \in 1..Len(calls) : VideoAnswers(k)
    \/ \E k \in 1..Len(calls) : ClaudeAnswers(k)

SpecManager == InitManager /\ [][NextManager]_vars

----------------------------------------------------------------------------
(* Vocabulary of the properties *)

Scored == pc = "scored"

FactorNames == {scoring_structure[k].name : k \in 1..Len(scoring_structure)}

FacetNames == {AllFacets[f].name : f \in 1..Len(AllFacets)}

\* lo <= r <= hi for a rational r and integers lo, hi
Between(r, lo, hi) == lo * r[2] <= r[1] /\ r[1] <= hi * r[2]

\* r * k for an integer k
Times_(r, k) == Rat(r[1] * k, r[2])

RECURSIVE SumInts(_)
SumInts(seq) == IF seq = <<>> THEN 0 ELSE Head(seq) + SumInts(Tail(seq))

\* the items of a facet the caller answered, in item order
Answered(facet_info) == SelectSeq(facet_info.items, LAMBDA item : item \in DOMAIN responses)

\* what an answered item is to add to its facet: 8 - v when the facet flags it, else v
Contribution(facet_info, item) ==
    IF item \in Range(facet_info.reverse) THEN 8 - responses[item] ELSE responses[item]

Contributions(facet_info) ==
    LET answered == Answered(facet_info) IN
    [k \in 1..Len(answered) |-> Contribution(facet_info, answered[k])]

----------------------------------------------------------------------------
\* C1: for every response set over ids 1..45 with ratings 1..7, every facet
\* score and every factor score of the result lies in [1, 7] and every bias
\* indicator lies in [0, 1].
C1_ScoreRanges ==
    Scored =>
        /\ \A f \in DOMAIN results.facet_scores : Between(results.facet_scores[f], 1, 7)
        /\ \A f \in DOMAIN results.factor_scores : Between(results.factor_scores[f], 1, 7)
        /\ \A b \in DOMAIN results.bias_indicators : Between(results.bias_indicators[b], 0, 1)

\* a result at the ends of the ranges: a factor at 7, an indicator at 1 and one at 0
C1_Witness ==
    /\ Scored
    /\ results.factor_scores["Factor 1 - Fearfulness"] = FromInt(7)
    /\ results.bias_indicators.fearfulness_bias = FromInt(1)
    /\ results.bias_indicators.social_confidence = FromInt(0)

\* C2: when exactly one item of a facet is answered with rating v, the facet
\* score is 8 - v if the facet flags the item as reverse and v otherwise; in
\* general the facet score times the number of answered items is the sum in
\* which every answered reverse item counts 8 - v once and every other one v.
C2_ReverseCoding ==
    Scored =>
        \A f \in 1..Len(AllFacets) :
            LET facet_info == AllFacets[f]
                answered == Answered(facet_info)
                score == results.facet_scores[facet_info.name]
            IN  /\ Len(answered) = 1 =>
                      LET v == responses[answered[1]] IN
                      score = FromInt(IF answered[1] \in Range(facet_info.reverse)
                                         THEN 8 - v ELSE v)
                /\ Len(answered) >= 1 =>
                      Times_(score, Len(answered)) = FromInt(SumInts(Contributions(facet_info)))

\* a facet scored from a single reverse-coded item whose rating is not the midpoint
C2_Witness ==
    /\ Scored
    /\ \E f \in 1..Len(AllFacets) :
          LET facet_info == AllFacets[f]
              answered == Answered(facet_info)
          IN  /\ Len(answered) = 1
              /\ answered[1] \in Range(facet_info.reverse)
              /\ responses[answered[1]] = 7
              /\ results.facet_scores[facet_info.name] = FromInt(1)

\* C3: each of the 15 facet scores is the arithmetic mean of the values
\* (reverse-coded where flagged) of the answered items of the facet, and is
\* exactly 4.0 when none of its items is answered.
C3_FacetMean ==
    Scored =>
        /\ DOMAIN results.facet_scores = FacetNames
        /\ \A f \in 1..Len(AllFacets) :
              LET facet_info == AllFacets[f]
                  values == Contributions(facet_info)
              IN  results.facet_scores[facet_info.name] =
                     IF values = <<>> THEN <<4, 1>>
                     ELSE Rat(SumInts(values), Len(values))

\* one facet with no answered item, another with two of its three items
\* answered and a mean that is not a whole number
C3_Witness ==
    /\ Scored
    /\ \E f \in 1..Len(AllFacets) :
          /\ Answered(AllFacets[f]) = <<>>
          /\ results.facet_scores[AllFacets[f].name] = <<4, 1>>
    /\ \E f \in 1..Len(AllFacets) :
          /\ Len(Answered(AllFacets[f])) = 2
          /\ results.facet_scores[AllFacets[f].name][2] = 2

\* C4: each of the 5 factor scores is the unweighted mean of the scores of
\* its facets, a defaulted 4.0 facet included, each facet counting once
\* however many of its items were answered.
C4_FactorMean ==
    Scored =>
        /\ DOMAIN results.factor_scores = FactorNames
        /\ \A k \in 1..Len(scoring_structure) :
              LET factor == scoring_structure[k]
                  n == Len(factor.facets)
                  scores == [j \in 1..n |-> results.facet_scores[factor.facets[j].name]]
              IN  Times_(results.factor_scores[factor.name], n) = RSum(scores)

\* a factor with one facet defaulted, another facet answered, and a factor
\* score of 5.5 = (7 + 4) / 2
C4_Witness ==
    /\ Scored
    /\ \E k \in 1..Len(scoring_structure) :
          LET factor == scoring_structure[k] IN
          /\ \E j \in 1..Len(factor.facets) : Answered(factor.facets[j]) = <<>>
          /\ \E j \in 1..Len(factor.facets) :
                /\ Answered(factor.facets[j]) # <<>>
                /\ results.facet_scores[factor.facets[j].name] = FromInt(7)
          /\ results.factor_scores[factor.name] = <<11, 2>>

\* C5: the 14 bias indicators are the stated functions of the factor scores
\* F1..F5 and of the facet scores: score / 7, (a + b) / 14, (7 - facet) / 7
\* and (7 - Fear of Dogs + Playfulness) / 14.
C5_BiasFormulas ==
    Scored =>
        LET B == results.bias_indicators
            F == results.factor_scores
            T == results.facet_scores
            F1 == F["Factor 1 - Fearfulness"]
            F2 == F["Factor 2 - Aggression towards People"]
            F3 == F["Factor 3 - Activity/Excitability"]
            F4 == F["Factor 4 - Responsiveness to Training"]
            F5 == F["Factor 5 - Aggression towards Animals"]
        IN  /\ DOMAIN B = {"fearfulness_bias", "aggression_bias", "excitability_bias",
                           "trainability_bias", "social_confidence", "dog_sociability",
                           "environmental_adaptability", "handling_tolerance",
                           "attention_seeking", "activity_level", "impulse_control",
                           "territorial_tendency", "resource_guarding", "prey_drive"}
            /\ Times_(B.fearfulness_bias, 7) = F1
            /\ Times_(B.aggression_bias, 14) = RAdd(F2, F5)
            /\ Times_(B.excitability_bias, 7) = F3
            /\ Times_(B.trainability_bias, 7) = F4
            /\ RAdd(Times_(B.social_confidence, 7), T["Fear of People"]) = FromInt(7)
            /\ RAdd(Times_(B.dog_sociability, 14), T["Fear of Dogs"])
                  = RAdd(FromInt(7), T["Playfulness"])
            /\ RAdd(Times_(B.environmental_adaptability, 7), T["Nonsocial Fear"]) = FromInt(7)
            /\ RAdd(Times_(B.handling_tolerance, 7), T["Fear of Handling"]) = FromInt(7)
            /\ Times_(B.attention_seeking, 7) = T["Companionability"]
            /\ Times_(B.activity_level, 14) = RAdd(T["Excitability"], T["Active Engagement"])
            /\ Times_(B.impulse_control, 7) = T["Controllability"]
            /\ Times_(B.territorial_tendency, 7) = T["General Aggression"]
            /\ Times_(B.resource_guarding, 7) = T["Situational Aggression"]
            /\ Times_(B.prey_drive, 7) = T["Prey Drive"]

\* a result whose paired scores differ, so that the two-score indicators are
\* sums of unlike terms
C5_Witness ==
    /\ Scored
    /\ results.factor_scores["Factor 2 - Aggression towards People"]
          # results.factor_scores["Factor 5 - Aggression towards Animals"]
    /\ results.facet_scores["Excitability"] # results.facet_scores["Active Engagement"]
    /\ RLt(results.facet_scores["Fear of Dogs"], results.facet_scores["Playfulness"])
    /\ results.bias_indicators.aggression_bias # results.bias_indicators.fearfulness_bias

\* C6: the profile level of a factor with score s is High if s >= 5.5,
\* Moderate if 4.5 <= s < 5.5 and Low if s < 4.5; every factor has exactly
\* one of the three levels.
C6_ProfileLevels ==
    Scored =>
        \A factor \in FactorNames :
            LET s == results.factor_scores[factor]
                level == results.personality_profile[factor]
            IN  /\ factor \in DOMAIN results.personality_profile
                /\ level \in {"High", "Moderate", "Low"}
                /\ level = "High" <=> 2 * s[1] >= 11 * s[2]
                /\ level = "Moderate" <=> (2 * s[1] >= 9 * s[2] /\ 2 * s[1] < 11 * s[2])
                /\ level = "Low" <=> 2 * s[1] < 9 * s[2]

\* a profile with all three levels, one factor being High at exactly 5.5
C6_Witness ==
    /\ Scored
    /\ \E factor \in FactorNames :
          /\ results.factor_scores[factor] = <<11, 2>>
          /\ results.personality_profile[factor] = "High"
    /\ \E factor \in FactorNames : results.personality_profile[factor] = "Moderate"
    /\ \E factor \in FactorNames : results.personality_profile[factor] = "Low"

\* the tag the label carries for each factor
TagOf ==
    [factor \in FactorNames |->
        CASE factor = "Factor 1 - Fearfulness" -> "Cautious/Fearful"
          [] factor = "Factor 2 - Aggression towards People" -> "Protective/Aggressive"
          [] factor = "Factor 3 - Activity/Excitability" -> "Energetic/Excitable"
          [] factor = "Factor 4 - Responsiveness to Training" -> "Trainable/Responsive"
          [] factor = "Factor 5 - Aggression towards Animals" -> "Animal-Reactive"]

RECURSIVE CommaList(_)
CommaList(tags) ==
    IF Len(tags) = 1 THEN tags[1] ELSE tags[1] \o ", " \o CommaList(Tail(tags))

\* the label for the factors (by position in the declaration order) in ks
LabelOf(ks) ==
    LET order == [k \in 1..Len(scoring_structure) |-> k]
        chosen == SelectSeq(order, LAMBDA k : k \in ks)
    IN  IF chosen = <<>> THEN "Balanced"
        ELSE CommaList([j \in 1..Len(chosen) |-> TagOf[scoring_structure[chosen[j]].name]])

\* distinct sets of factors have distinct labels, so a label tells which tags it contains
LabelsDistinct ==
    \A ks1, ks2 \in SUBSET (1..Len(scoring_structure)) :
        LabelOf(ks1) = LabelOf(ks2) => ks1 = ks2

\* C7: Dominant_Traits carries the tag of a factor iff the factor's score is
\* >= 5.0, the tags come in factor declaration order joined by commas, and
\* the label is "Balanced" exactly when no factor score reaches 5.0.
C7_DominantTraits ==
    Scored =>
        LET reaching == {k \in 1..Len(scoring_structure) :
                            LET s == results.factor_scores[scoring_structure[k].name]
                            IN  s[1] >= 5 * s[2]}
            label == results.personality_profile["Dominant_Traits"]
        IN  /\ LabelsDistinct
            /\ label = LabelOf(reaching)
            /\ label = "Balanced" <=> reaching = {}

\* a label of four tags that skips Factor 4 and includes a factor at exactly 5.0
C7_Witness ==
    /\ Scored
    /\ results.factor_scores["Factor 3 - Activity/Excitability"] = FromInt(5)
    /\ RLt(results.factor_scores["Factor 4 - Responsiveness to Training"], FromInt(5))
    /\ results.personality_profile["Dominant_Traits"] =
          "Cautious/Fearful, Protective/Aggressive, Energetic/Excitable, Animal-Reactive"

\* the facets (by position in AllFacets) whose item list holds id
FacetsOf(id) == {f \in 1..Len(AllFacets) : id \in Range(AllFacets[f].items)}

\* the (factor, facet) positions at which a facet of the given name is declared
DeclarationsOf(name) ==
    {<<k, j>> \in (1..Len(scoring_structure)) \X (1..4) :
        /\ j <= Len(scoring_structure[k].facets)
        /\ scoring_structure[k].facets[j].name = name}

\* the instrument's structure: 5 factors, every id in exactly one facet's
\* item list, no id twice in a list, every facet declared exactly once
StructureIsPartition ==
    /\ Len(scoring_structure) = 5
    /\ \A id \in QuestionIds : Cardinality(FacetsOf(id)) = 1
    /\ \A f \in 1..Len(AllFacets) :
          /\ Range(AllFacets[f].items) \subseteq QuestionIds
          /\ Cardinality(Range(AllFacets[f].items)) = Len(AllFacets[f].items)
          /\ Cardinality(DeclarationsOf(AllFacets[f].name)) = 1

\* C8: the item lists of the facets partition the ids 1..45, every id lying
\* in exactly one facet with no gap and no duplicate, and every facet belongs
\* to exactly one of the 5 factors; so a scoring run uses every answered id
\* in exactly one facet.
C8_ItemPartition ==
    /\ StructureIsPartition
    /\ Scored =>
          SumInts([f \in 1..Len(AllFacets) |-> Len(Answered(AllFacets[f]))])
             = Cardinality(DOMAIN responses)

\* a complete questionnaire scored: all 45 ids used, three per facet
C8_Witness ==
    /\ Scored
    /\ DOMAIN responses = 1..45
    /\ \A f \in 1..Len(AllFacets) : Len(Answered(AllFacets[f])) = 3

\* the ids some facet flags as reverse-coded
FlaggedIds == UNION {Range(AllFacets[f].reverse) : f \in 1..Len(AllFacets)}

\* the 14 flagged ids, each an item of the facet that flags it
FlaggedIdsAreTheFourteen ==
    /\ Cardinality(FlaggedIds) = 14
    /\ FlaggedIds = {1, 4, 9, 10, 11, 18, 19, 22, 26, 28, 29, 34, 38, 41}
    /\ \A f \in 1..Len(AllFacets) :
          Range(AllFacets[f].reverse) \subseteq Range(AllFacets[f].items)

\* C9: the reverse-coded ids over all facets are exactly the 14 ids
\* {1, 4, 9, 10, 11, 18, 19, 22, 26, 28, 29, 34, 38, 41}, and each is an item
\* of the facet that flags it; so a scoring run reverses exactly the answered
\* ids among these.
C9_ReverseSet ==
    /\ FlaggedIdsAreTheFourteen
    /\ Scored =>
          \A f \in 1..Len(AllFacets) :
              LET answered == Answered(AllFacets[f])
                  expected == [k \in 1..Len(answered) |->
                                  IF answered[k] \in {1, 4, 9, 10, 11, 18, 19, 22, 26, 28,
                                                      29, 34, 38, 41}
                                     THEN 8 - responses[answered[k]]
                                     ELSE responses[answered[k]]]
              IN  answered # <<>> =>
                     Times_(results.facet_scores[AllFacets[f].name], Len(answered))
                        = FromInt(SumInts(expected))

\* all 45 items rated 7: the 14 flagged ones count 1, so Trainability
\* (29 and 38 flagged, 43 not) scores (1 + 1 + 7) / 3 = 3
C9_Witness ==
    /\ Scored
    /\ DOMAIN responses = 1..45
    /\ \A i \in 1..45 : responses[i] = 7
    /\ results.facet_scores["Trainability"] = FromInt(3)
    /\ results.facet_scores["Dominance over Other Dogs"] = FromInt(5)

\* C10: for every response set, complete or partial, the result has exactly
\* 5 factor scores, 15 facet scores and 14 bias indicators, and a profile
\* with one level per factor plus the Dominant_Traits entry.
C10_ResultShape ==
    Scored =>
        /\ Cardinality(DOMAIN results.factor_scores) = 5
        /\ Cardinality(DOMAIN results.facet_scores) = 15
        /\ Cardinality(DOMAIN results.bias_indicators) = 14
        /\ DOMAIN results.personality_profile = DOMAIN results.factor_scores \cup {"Dominant_Traits"}
        /\ Cardinality(DOMAIN results.personality_profile) = 6
        /\ \A factor \in DOMAIN results.factor_scores :
              results.personality_profile[factor] \in {"High", "Moderate", "Low"}

\* the three-answer questionnaire {1: 4, 2: 4, 3: 4} scored
C10_Witness ==
    /\ Scored
    /\ DOMAIN responses = {1, 2, 3}
    /\ \A i \in {1, 2, 3} : responses[i] = 4
    /\ Cardinality(DOMAIN results.facet_scores) = 15

----------------------------------------------------------------------------
(* Vocabulary of the properties of step-by-step calls *)

Done(c) == calls[c].pc = "done"

\* the four score fields of a result, without dog_id, assessment_date and raw_scores
ScoreFields(r) ==
    [ factor_scores |-> r.factor_scores,
      facet_scores |-> r.facet_scores,
      personality_profile |-> r.personality_profile,
      bias_indicators |-> r.bias_indicators ]

\* one change of one entry of a mapping: a re-rating, an addition or a removal
OneChange(m) ==
    {Override(m, [x \in {k} |-> v]) : k \in ChangeKeys, v \in ChangeValues \cup {Absent}}

\* the mappings the caller can hold after at most n changes
RECURSIVE MappingsAfter(_)
MappingsAfter(n) ==
    IF n = 0 THEN CallInputs
    ELSE LET before == MappingsAfter(n - 1) IN
         before \cup UNION {OneChange(m) : m \in before}

\* what score_assessment returns for each of these mappings when the call is
\* the only one ever made on the instance
RunAlone == [m \in MappingsAfter(MaxChanges) |-> Scores(m)]

C12_CallerMappingKept ==
    [][changes' = changes => responses' = responses]_vars

\* a call has returned, its working copy holds 8 - 7 = 1 for the reverse-coded
\* item 1, and the caller's mapping still holds the 7 it was passed with
C12_Witness ==
    /\ Done(1)
    /\ changes = 0
    /\ 1 \in DOMAIN responses /\ responses[1] = 7
    /\ responses = calls[1].called_with
    /\ heap[calls[1].processed_responses][1] = 1

\* C13: the raw_scores of a returned result equal the mapping as it was when
\* the call was made, whatever the caller does to its mapping afterwards.
C13_RawScoresAreACopy ==
    \A c \in Calls :
        Done(c) => Deref(calls[c].returned.raw_scores) = calls[c].called_with

\* C14: no call writes the attributes of the instance, and under every
\* interleaving of the calls each call returns the scores it returns for the
\* same mapping when it runs alone.
C14_ConcurrentCalls ==
    /\ dpq = Questionnaire
    /\ \A c \in Calls :
          Done(c) => ScoreFields(calls[c].returned) = RunAlone[calls[c].called_with]

\* the second call has returned while the first, made before it with another
\* mapping, is still between its copy and its return
C14_Witness ==
    /\ Done(2)
    /\ calls[1].pc \in {"reverse", "facets", "factors"}
    /\ calls[1].called_with = Uniform(7)
    /\ calls[2].called_with # calls[1].called_with
    /\ calls[2].returned.facet_scores["Fear of People"] = FromInt(7)

----------------------------------------------------------------------------
(* Vocabulary of the properties of mappings handed over by other callers *)

\* score_assessment was passed the caller's mapping as it is
ScoredDirectly == Scored /\ results.raw_scores = CallerDict

\* score_assessment was passed the mapping with its keys converted by int()
ScoredCoerced == Scored /\ results.raw_scores = CoercedDict

\* the entries of a mapping under the question ids 1..45
InScope(m) == [i \in (DOMAIN m) \cap QuestionIds |-> m[i]]

\* every key of the mapping is the str of a question id
StrKeysOnly(m) == DOMAIN m # {} /\ DOMAIN m \subseteq {StrKey(i) : i \in QuestionIds}

\* the integer-keyed mapping with the values a str-keyed mapping has
IntKeyed(m) == [i \in {n \in QuestionIds : StrKey(n) \in DOMAIN m} |-> m[StrKey(i)]]

\* C15: when a supplied response value is not an integer in 1..7, the scoring
\* call fails with an error and produces no result.
C15_InvalidValueRejected ==
    (\E i \in DOMAIN responses : responses[i] \notin Scale) => ~Scored

\* C16: when zero responses are supplied, the scoring call raises an error
\* instead of returning a result whose scores are all 4.0.
C16_EmptyRejected ==
    DOMAIN responses = {} => ~Scored

\* C17: entries under ids outside 1..45 do not make score_assessment fail and
\* change nothing: the factor scores, facet scores, profile and bias
\* indicators are those of the mapping without these entries.
C17_OtherIdsIgnored ==
    ScoredDirectly => ScoreFields(results) = Scores(InScope(responses))

\* the fearful fixture with entries under the ids 0 and 46 scored: items 12,
\* 28 (reverse-coded) and 45 alone give (3 + 4 + 3) / 3
C17_Witness ==
    /\ ScoredDirectly
    /\ {0, 46} \subseteq DOMAIN responses
    /\ responses[46] = 7
    /\ InScope(responses) = fearful_responses
    /\ results.facet_scores["Dominance over Other Dogs"] = Rat(10, 3)

C19_NeutralInput ==
    (Scored /\ responses = Uniform(4)) =>
        /\ \A factor \in FactorNames :
              LET s == results.factor_scores[factor] IN
              2 * Abs(s[1] - 4 * s[2]) <= s[2]
        /\ \A facet \in FacetNames : results.facet_scores[facet] = FromInt(4)

\* the all-4 questionnaire scored: a Balanced profile at the midpoint
C19_Witness ==
    /\ Scored
    /\ responses = Uniform(4)
    /\ results.factor_scores["Factor 4 - Responsiveness to Training"] = FromInt(4)
    /\ results.personality_profile["Dominant_Traits"] = "Balanced"

\* every supplied response is 7
AllSevens == DOMAIN responses # {} /\ \A i \in DOMAIN responses : responses[i] = 7

\* the answered items of a facet that the facet flags as reverse-coded
AnsweredReverse(facet_info) ==
    SelectSeq(Answered(facet_info), LAMBDA item : item \in Range(facet_info.reverse))

\* C20: when every supplied response is 7, a reverse-coded item adds 1 and
\* every other item adds 7 to the sum its facet score is the mean of; a facet
\* scored from one reverse-coded and one other item scores (1 + 7) / 2 = 4.0.
C20_AllSevens ==
    (Scored /\ AllSevens) =>
        \A f \in 1..Len(AllFacets) :
            LET facet_info == AllFacets[f]
                n == Len(Answered(facet_info))
                reversed == Len(AnsweredReverse(facet_info))
                score == results.facet_scores[facet_info.name]
            IN  /\ n > 0 => Times_(score, n) = FromInt(reversed * 1 + (n - reversed) * 7)
                /\ (n = 2 /\ reversed = 1) => score = FromInt(4)

\* all 7s with one item left out: a facet left with one reverse-coded and
\* one other item scores 4.0, a facet of three plain items scores 7.0
C20_Witness ==
    /\ Scored /\ AllSevens
    /\ \E f \in 1..Len(AllFacets) :
          /\ Len(Answered(AllFacets[f])) = 2
          /\ Len(AnsweredReverse(AllFacets[f])) = 1
          /\ results.facet_scores[AllFacets[f].name] = FromInt(4)
    /\ results.facet_scores["Prey Drive"] = FromInt(7)


----------------------------------------------------------------------------
\* the caller rated items 1, 11 and 22 at most 3 and the nine other items of
\* Factor 1 at least 6, and answered every question
FearfulPattern ==
    /\ DOMAIN responses = QuestionIds
    /\ \A i \in {1, 11, 22} : responses[i] <= 3
    /\ \A i \in {3, 6, 13, 16, 21, 27, 35, 42, 44} : responses[i] >= 6

\* C21: a complete response set with items 1, 11, 22 rated at most 3 and
\* items 3, 6, 13, 16, 21, 27, 35, 42, 44 rated at least 6 scores Factor 1 -
\* Fearfulness above 4.0 and fearfulness_bias above 0.5, whatever the other
\* items are.
C21_FearfulProfile ==
    (Scored /\ FearfulPattern) =>
        /\ RLt(FromInt(4), results.factor_scores["Factor 1 - Fearfulness"])
        /\ RLt(Rat(1, 2), results.bias_indicators["fearfulness_bias"])

\* the weakest answers of the pattern, every other item at 1: Factor 1 is
\* (17/3 + 16/3 + 6 + 6) / 4 = 5.75
C21_Witness ==
    /\ Scored /\ FearfulPattern
    /\ \A i \in {1, 11, 22} : responses[i] = 3
    /\ \A i \in {3, 6, 13, 16, 21, 27, 35, 42, 44} : responses[i] = 6
    /\ responses[2] = 1
    /\ results.factor_scores["Factor 1 - Fearfulness"] = Rat(23, 4)
    /\ results.bias_indicators["fearfulness_bias"] = Rat(23, 28)

\* the caller rated items 5, 14, 17, 32, 33 and 43 at least 6 and items 10,
\* 29 and 38 at most 2, and answered every question
TrainablePattern ==
    /\ DOMAIN responses = QuestionIds
    /\ \A i \in {5, 14, 17, 32, 33, 43} : responses[i] >= 6
    /\ \A i \in {10, 29, 38} : responses[i] <= 2

\* C22: a complete response set with items 5, 14, 17, 32, 33, 43 rated at
\* least 6 and items 10, 29, 38 rated at most 2 scores Factor 4 -
\* Responsiveness to Training above 4.5 and trainability_bias above 0.6.
C22_TrainableProfile ==
    (Scored /\ TrainablePattern) =>
        /\ RLt(Rat(9, 2), results.factor_scores["Factor 4 - Responsiveness to Training"])
        /\ RLt(Rat(3, 5), results.bias_indicators["trainability_bias"])

\* the weakest answers of the pattern, every other item at 7: both facets of
\* Factor 4 score 6.0
C22_Witness ==
    /\ Scored /\ TrainablePattern
    /\ \A i \in {5, 14, 17, 32, 33, 43} : responses[i] = 6
    /\ \A i \in {10, 29, 38} : responses[i] = 2
    /\ responses[1] = 7
    /\ results.facet_scores["Trainability"] = FromInt(6)
    /\ results.facet_scores["Controllability"] = FromInt(6)
    /\ results.bias_indicators["trainability_bias"] = Rat(6, 7)


----------------------------------------------------------------------------
\* load_results returned a DPQResults
Loaded == pc = "loaded" /\ loaded # PyNone

\* C23: load_results applied to the file written by save_results(r) returns
\* a DPQResults with the dog_id, factor_scores, facet_scores,
\* personality_profile and bias_indicators of r, and raw_scores that map the
\* same question ids to the same values as those of r.
C23_SaveLoadRoundTrip ==
    Loaded =>
        /\ loaded.dog_id = results.dog_id
        /\ loaded.factor_scores = results.factor_scores
        /\ loaded.facet_scores = results.facet_scores
        /\ loaded.personality_profile = results.personality_profile
        /\ loaded.bias_indicators = results.bias_indicators
        /\ Deref(loaded.raw_scores) = Deref(results.raw_scores)


----------------------------------------------------------------------------
\* C24: the fallback of a factor score to 4.0 is never taken: every facet of
\* every factor has a facet score, so the list the factor is averaged over
\* is never empty and each factor score is the mean over all of its facets.
C24_FactorFallbackUnreachable ==
    Scored =>
        \A k \in 1..Len(scoring_structure) :
            LET factor == scoring_structure[k]
                valid_facet_scores == ValidFacetScores(factor, results.facet_scores)
            IN  /\ valid_facet_scores # <<>>
                /\ Len(valid_facet_scores) = Len(factor.facets)
                /\ results.factor_scores[factor.name] =
                      Mean([j \in 1..Len(factor.facets) |->
                               results.facet_scores[factor.facets[j].name]])

\* nothing answered: every facet falls back to 4.0, and every factor is still
\* averaged over the full list of its facets
C24_Witness ==
    /\ Scored
    /\ responses = EmptyDict
    /\ \A facet \in FacetNames : results.facet_scores[facet] = FromInt(NeutralScore)
    /\ Len(ValidFacetScores(Fearfulness, results.facet_scores)) = 4
    /\ results.factor_scores["Factor 1 - Fearfulness"] = FromInt(NeutralScore)


----------------------------------------------------------------------------
\* the twelve items of Factor 1, its reverse-coded items 1, 11, 22, and the
\* items of the questionnaire that are not reverse-coded
FearItems == ItemsOf(Fearfulness)

FearReverseItems == ReverseItemsOf(Fearfulness)

PlainItems == QuestionIds \ Range(ReverseItems)

\* mapping b answers Factor 1 at least as fearfully as mapping a: no other
\* item differs, no item of Factor 1 that is not reverse-coded is rated
\* lower and none of its reverse-coded items 1, 11, 22 is rated higher
AtLeastAsFearful(a, b) ==
    /\ DOMAIN a = DOMAIN b
    /\ \A i \in DOMAIN a :
          IF i \in FearReverseItems THEN b[i] <= a[i]
          ELSE IF i \in FearItems THEN a[i] <= b[i]
          ELSE a[i] = b[i]

\* every item that is not reverse-coded is rated 6 and items 1, 11, 22 are rated 2
SixesAndTwos(m) ==
    /\ DOMAIN m = QuestionIds
    /\ \A i \in PlainItems : m[i] = 6
    /\ \A i \in {1, 11, 22} : m[i] = 2

\* C25: fearfulness_bias is monotone in the answers of Factor 1: rating one
\* of its items that is not reverse-coded higher, or one of its
\* reverse-coded items 1, 11, 22 lower, never lowers fearfulness_bias; with
\* every item that is not reverse-coded at 6 and items 1, 11, 22 at 2,
\* fearfulness_bias exceeds 0.4.
C25_FearfulnessMonotone ==
    \A i \in 1..Len(calls), j \in 1..Len(calls) :
        /\ AtLeastAsFearful(calls[i].called_with, calls[j].called_with) =>
              RLe(calls[i].returned.bias_indicators["fearfulness_bias"],
                  calls[j].returned.bias_indicators["fearfulness_bias"])
        /\ SixesAndTwos(calls[i].called_with) =>
              RLt(Rat(2, 5), calls[i].returned.bias_indicators["fearfulness_bias"])

\* the questionnaire of the test scored, item 11 lowered from 2 to 1 and the
\* questionnaire scored again: Nonsocial Fear goes from 6 to 19/3 and
\* fearfulness_bias from 6/7 to 73/84
C25_Witness ==
    /\ Len(calls) = 2
    /\ SixesAndTwos(calls[1].called_with)
    /\ calls[2].called_with = Override(calls[1].called_with, [x \in {11} |-> 1])
    /\ AtLeastAsFearful(calls[1].called_with, calls[2].called_with)
    /\ calls[1].returned.bias_indicators["fearfulness_bias"] = Rat(6, 7)
    /\ calls[2].returned.bias_indicators["fearfulness_bias"] = Rat(73, 84)


----------------------------------------------------------------------------
\* how many entries of the list are one of the given texts
CountOf(list, texts) == Cardinality({k \in 1..Len(list) : list[k] \in texts})

\* C26: _generate_recommendations returns a non-empty list for every
\* DPQResults, one without bias indicators or with all of them at an extreme
\* included: the trainability branch and the activity-level branch each add
\* exactly one entry, and the list has at least 2 and at most 10 entries.
C26_RecommendationsNonEmpty ==
    pc = "analyzed" =>
        /\ recommendations # <<>>
        /\ Len(recommendations) >= 2
        /\ Len(recommendations) <= 10
        /\ CountOf(recommendations,
                   {"Dog likely responds well to clear commands and structure",
                    "May need more patience and alternative communication approaches"}) = 1
        /\ CountOf(recommendations,
                   {"Expect active, movement-oriented communications",
                    "Dog may prefer calm, low-energy interactions"}) = 1

\* a DPQResults built by hand whose indicators take every branch: ten
\* entries, the seventh from the trainability branch and the last from the
\* activity-level branch
C26_Witness ==
    /\ pc = "analyzed"
    /\ results.bias_indicators # EmptyDict
    /\ Len(recommendations) = 10
    /\ recommendations[7] = "Dog likely responds well to clear commands and structure"
    /\ recommendations[10] = "Expect active, movement-oriented communications"


----------------------------------------------------------------------------
\* the factors (by position in the declaration order) the profile rates High
HighFactors ==
    {k \in 1..Len(scoring_structure) :
        results.personality_profile[scoring_structure[k].name] = "High"}

\* C27: the personality profile is consistent: a factor whose level is High
\* has its tag in Dominant_Traits, and when Dominant_Traits is "Balanced"
\* every factor's level is Low or Moderate.
C27_ProfileConsistency ==
    Scored =>
        LET label == results.personality_profile["Dominant_Traits"] IN
        /\ \E ks \in SUBSET (1..Len(scoring_structure)) :
              label = LabelOf(ks) /\ HighFactors \subseteq ks
        /\ label = "Balanced" =>
              \A factor \in FactorNames :
                  results.personality_profile[factor] \in {"Low", "Moderate"}

\* all 7s: Factors 1 and 2 are rated High, Factor 1 at exactly 5.5, and are
\* tagged, next to the tags of the factors that reach 5.0 without being High
C27_Witness ==
    /\ Scored
    /\ responses = Uniform(ScaleMax)
    /\ HighFactors = {1, 2}
    /\ results.factor_scores["Factor 1 - Fearfulness"] = HighThreshold
    /\ results.personality_profile["Dominant_Traits"] =
          "Cautious/Fearful, Protective/Aggressive, Energetic/Excitable, Animal-Reactive"


----------------------------------------------------------------------------
\* the ids of the mapping are question ids and its ratings are on the scale
ValidInput ==
    /\ DOMAIN responses \subseteq QuestionIds
    /\ \A i \in DOMAIN responses : responses[i] \in Scale

\* the indicators that are a score over 7, the mean of two scores over 7,
\* and 7 minus a facet score over 7, the latter with their facets
DirectIndicators ==
    {"fearfulness_bias", "excitability_bias", "trainability_bias", "attention_seeking",
     "impulse_control", "territorial_tendency", "resource_guarding", "prey_drive"}

PairIndicators == {"aggression_bias", "activity_level"}

ComplementOf ==
    [social_confidence |-> "Fear of People",
     environmental_adaptability |-> "Nonsocial Fear",
     handling_tolerance |-> "Fear of Handling"]

\* C28: for valid inputs the indicators of the form score/7 and (a + b)/14
\* are at least 1/7; the complement indicators social_confidence,
\* environmental_adaptability and handling_tolerance are at most 6/7 and are
\* 0 only when their facet scores 7; dog_sociability lies in [1/14, 13/14].
C28_IndicatorSubRanges ==
    (Scored /\ ValidInput) =>
        LET bias == results.bias_indicators IN
        /\ \A name \in DirectIndicators \cup PairIndicators : RLe(Rat(1, 7), bias[name])
        /\ \A name \in DOMAIN ComplementOf :
              /\ RLe(bias[name], Rat(6, 7))
              /\ bias[name] = FromInt(0) =>
                    results.facet_scores[ComplementOf[name]] = FromInt(7)
        /\ RLe(Rat(1, 14), bias["dog_sociability"])
        /\ RLe(bias["dog_sociability"], Rat(13, 14))

\* Factor 1 answered for facet scores of 7 and the rest for 1: the
\* complements are 0, dog_sociability is at its floor 1/14 and the
\* indicators of the other factors at their floor 1/7
C28_Witness ==
    /\ Scored /\ ValidInput
    /\ results.facet_scores["Fear of People"] = FromInt(7)
    /\ results.bias_indicators["social_confidence"] = FromInt(0)
    /\ results.bias_indicators["handling_tolerance"] = FromInt(0)
    /\ results.bias_indicators["dog_sociability"] = Rat(1, 14)
    /\ results.bias_indicators["aggression_bias"] = Rat(1, 7)
    /\ results.bias_indicators["prey_drive"] = Rat(1, 7)


----------------------------------------------------------------------------
\* the formatter rates the factor High: its score is 5.5 or more
RatedHigh(factor) == response.personality_factors[factor].level = "High"

\* C29: in the personality summary of format_assessment_response,
\* dominant_traits is empty only if none of Fearfulness,
\* Activity/Excitability and Responsiveness to Training is at level High,
\* and a High Activity/Excitability or Responsiveness to Training yields the
\* primary type Energetic Explorer, Eager Learner or High-Energy Companion.
C29_SummaryFollowsHighFactors ==
    pc = "formatted" =>
        LET summary == response.personality_summary IN
        /\ summary.dominant_traits = <<>> =>
              /\ ~RatedHigh("Factor 1 - Fearfulness")
              /\ ~RatedHigh("Factor 3 - Activity/Excitability")
              /\ ~RatedHigh("Factor 4 - Responsiveness to Training")
        /\ (RatedHigh("Factor 3 - Activity/Excitability")
            \/ RatedHigh("Factor 4 - Responsiveness to Training")) =>
              summary.primary_type \in
                  {"Energetic Explorer", "Eager Learner", "High-Energy Companion"}


----------------------------------------------------------------------------
\* the operations called after a call of shutdown()
AfterShutdown ==
    {k \in 1..Len(calls) : \E j \in 1..(k - 1) : calls[j].op = "shutdown"}

\* C30: is_healthy() is true exactly when dpq, claude and video are all
\* registered; after shutdown() the registry is empty, is_healthy() is
\* false, process_complete_assessment and process_video_assessment raise
\* RuntimeError without invoking a service, and restart_service raises
\* ValueError for every name, so nothing makes the manager healthy again.
C30_ManagerLifecycle ==
    /\ is_healthy(manager) <=> ServiceNames \subseteq DOMAIN manager.services
    /\ (Len(calls) > 0 /\ calls[Len(calls)].op = "is_healthy") =>
          (calls[Len(calls)].returned = "True"
             <=> ServiceNames \subseteq DOMAIN manager.services)
    /\ (\E j \in 1..Len(calls) : calls[j].op = "shutdown") =>
          /\ DOMAIN manager.services = {}
          /\ ~is_healthy(manager)
    /\ \A k \in AfterShutdown :
          /\ calls[k].op \in {"process_complete_assessment", "process_video_assessment"} =>
                calls[k].raised = "RuntimeError" /\ calls[k].invoked = <<>>
          /\ calls[k].op = "restart_service" => calls[k].raised = "ValueError"
          /\ calls[k].op = "is_healthy" => calls[k].returned = "False"

\* shutdown(), then a video assessment that raises RuntimeError with no
\* service invoked, then a restart of dpq that raises ValueError
C30_Witness ==
    /\ Len(calls) = 3
    /\ calls[1].op = "shutdown"
    /\ calls[2].op = "process_video_assessment"
    /\ calls[2].raised = "RuntimeError" /\ calls[2].invoked = <<>>
    /\ calls[3].op = "restart_service" /\ calls[3].arg = "dpq"
    /\ calls[3].raised = "ValueError"
    /\ ~is_healthy(manager)

====
